---- MODULE Spec2Model ----
(***************************************************************************)
(* Verification model of klyde168/neon-postgres-qrcode-gemini.             *)
(*                                                                         *)
(* Parts, each with its own specification over the shared variables:       *)
(*   SpecAction   the /scan action (app/routes/scan.tsx) handling          *)
(*                arbitrary form posts, the store and the WebSocket hub    *)
(*   SpecScanner  the QrScanner component (camera session, scan loop,      *)
(*                fetcher submission to the /scan action)                  *)
(*   SpecDisplay  the generate page's handling of delivered scan messages  *)
(*   SpecEvents   the /events push stream (poll timer per open stream)     *)
(*   SpecSince    the queries for records newer than an id: the stream's   *)
(*                poll query and the /api/check-updates loader             *)
(*   SpecHub      the WebSocket hub's handlers, initialize() and close();  *)
(*                SpecHubLive adds the fairness of its heartbeat timer     *)
(*   SpecReceiver the connection hooks useSSE and useWebSocket with their  *)
(*                transports and reconnect timeouts                        *)
(*   SpecTabs     the display tabs of one origin and the cross-tab signal  *)
(*                of a new scan through localStorage                       *)
(*   SpecPool     every server handler that takes a client from the pool   *)
(***************************************************************************)
EXTENDS Integers, Sequences, FiniteSets, TLC

VARIABLES
    now,        \* server clock: milliseconds elapsed since the model's epoch
    store,      \* table scanned_data: sequence of rows [id, data, scanned_at]
    serial,     \* last value handed out by the SERIAL column scanned_data.id
    req,        \* the form of the last request handled by the /scan action
    resp,       \* the response the /scan action returned to it
    trace,      \* what that run of the action did: [at, connected, released, inserted]
    conns,      \* hub registry: the set of sockets in QRCodeWebSocketManager.connections
    ready,      \* socket -> readyState ("NEW" before it connects, "OPEN", "CLOSE_RECEIVED",
                \* "CLOSING", "CLOSED")
    inbox,      \* socket -> sequence of messages the client has received
    qs,         \* the QrScanner component with its browser: state, refs, video
                \* element, camera streams, animation frames, fetcher
    page,       \* the generate page: lastMessage, currentDisplayData, pending renders
    sse,        \* one /events stream: its timers, its polls in flight, what it sent
    upd,        \* the last response of the /api/check-updates loader
    hub,        \* QRCodeWebSocketManager: its server and its heartbeat timer
    rx,         \* one mounted connection hook (useSSE or useWebSocket) with the
                \* transports it created and its reconnect timers
    tabs,       \* the origin's localStorage and the generate pages open in its tabs
    dbrun       \* the last run of the generate loader, the generate action or the
                \* test-db loader: what it did with the pool

serverVars == <<store, serial, req, resp, trace>>
hubVars == <<conns, ready, inbox, hub>>
vars == <<now, store, serial, req, resp, trace, conns, ready, inbox, hub, qs, page, sse, upd, rx, tabs, dbrun>>

(***************************************************************************)
(* JavaScript numbers.  Timestamps are epoch milliseconds (13 decimal      *)
(* digits), beyond TLC's 32-bit integers, so a number is kept as two      *)
(* limbs, value = hi * 10^5 + lo with 0 <= lo < 10^5 (hi carries the       *)
(* sign); NaN is a number too and poisons arithmetic and comparisons.      *)
(***************************************************************************)
Limb == 10 * 10 * 10 * 10 * 10

NaN == [nan |-> TRUE, hi |-> 0, lo |-> 0]

Num(h, l) == [nan |-> FALSE, hi |-> h + (l \div Limb), lo |-> l % Limb]

Small(n) == Num(0, n)

Neg(a) == IF a.nan THEN NaN ELSE Num(-a.hi, -a.lo)

\* a > b in JavaScript: false when either side is NaN
Gt(a, b) ==
    /\ ~a.nan
    /\ ~b.nan
    /\ \/ a.hi > b.hi
       \/ a.hi = b.hi /\ a.lo > b.lo

Lt(a, b) == Gt(b, a)

\* Math.floor((a - b) / 1000): 10^5 is a multiple of 1000, so the limbs divide apart
FloorDiffSeconds(a, b) ==
    IF a.nan \/ b.nan THEN NaN
    ELSE LET s == (a.hi - b.hi) * (Limb \div 1000) + ((a.lo - b.lo) \div 1000)
         IN  Num(s \div Limb, s % Limb)

\* a * 1000, for the limbs of a 10-digit seconds timestamp
Times1000(a) == IF a.nan THEN NaN ELSE Num(a.hi * 1000, a.lo * 1000)

\* a - ms for a small non-negative or negative ms
MinusMs(a, ms) == IF a.nan THEN NaN ELSE Num(a.hi, a.lo - ms)

RECURSIVE DigitCount(_)
DigitCount(n) == IF n < 10 THEN 1 ELSE 1 + DigitCount(n \div 10)

\* n.toString().length for a non-negative number
DecimalLength(a) == IF a.hi = 0 THEN DigitCount(a.lo) ELSE DigitCount(a.hi) + 5

(***************************************************************************)
(* Strings are sequences of one-character strings.                         *)
(***************************************************************************)
Digits == <<"0", "1", "2", "3", "4", "5", "6", "7", "8", "9">>

IsDigit(c) == \E i \in 1..10 : Digits[i] = c

DigitValue(c) == (CHOOSE i \in 1..10 : Digits[i] = c) - 1

IsSpace(c) == c = " "

\* \w of a JavaScript regular expression, over the model's alphabet
IsWordChar(c) == IsDigit(c) \/ c \in {"a", "b", "x", "_"}

RECURSIVE NatDigits(_)
NatDigits(n) == IF n < 10 THEN <<Digits[n + 1]>> ELSE NatDigits(n \div 10) \o <<Digits[(n % 10) + 1]>>

RECURSIVE PadLeft(_, _)
PadLeft(s, width) == IF Len(s) >= width THEN s ELSE PadLeft(<<"0">> \o s, width)

\* Number.prototype.toString for a non-negative integer
ToDigits(a) ==
    IF a.hi = 0 THEN NatDigits(a.lo)
    ELSE NatDigits(a.hi) \o PadLeft(NatDigits(a.lo), 5)

RECURSIVE SkipSpaces(_)
SkipSpaces(s) == IF s # <<>> /\ IsSpace(Head(s)) THEN SkipSpaces(Tail(s)) ELSE s

RECURSIVE DropTrailingSpaces(_)
DropTrailingSpaces(s) ==
    IF s # <<>> /\ IsSpace(s[Len(s)]) THEN DropTrailingSpaces(SubSeq(s, 1, Len(s) - 1)) ELSE s

\* A mutant of Trim: nothing is trimmed.
TrimNothing(s) == s

\* String.prototype.trim
Trim(s) == DropTrailingSpaces(SkipSpaces(s))

RECURSIVE DigitPrefix(_)
DigitPrefix(s) == IF s # <<>> /\ IsDigit(Head(s)) THEN <<Head(s)>> \o DigitPrefix(Tail(s)) ELSE <<>>

RECURSIVE DigitsToNum(_, _)
DigitsToNum(s, acc) ==
    IF s = <<>> THEN acc
    ELSE DigitsToNum(Tail(s), Num(acc.hi * 10, acc.lo * 10 + DigitValue(Head(s))))

\* parseInt(s, 10): leading white space, an optional sign, then the longest run of
\* digits; NaN when there is no digit
ParseInt(s) ==
    LET t    == SkipSpaces(s)
        neg  == t # <<>> /\ Head(t) = "-"
        u    == IF t # <<>> /\ Head(t) \in {"-", "+"} THEN Tail(t) ELSE t
        run  == DigitPrefix(u)
    IN  IF run = <<>> THEN NaN
        ELSE IF neg THEN Neg(DigitsToNum(run, Small(0))) ELSE DigitsToNum(run, Small(0))

(***************************************************************************)
(* Bounds of the model.                                                    *)
(***************************************************************************)
EpochHi == 17000000     \* the model's clock starts at epoch ms EpochHi * 10^5
ClockStepMs == 2500     \* one step of the server clock
MaxTicks == 1           \* clock steps taken
MaxRows == 1            \* rows the store may hold
MaxStartRows == 7       \* rows in the table before an /events stream opens
MaxInserts == 2         \* rows inserted while an /events stream is open
MaxSockets == 2         \* sockets that may connect to the hub

Sockets == 1..MaxSockets

\* Date.now()
DateNow == Num(EpochHi, now)

(***************************************************************************)
(* Form fields: formData.get(name) is null for an absent field.            *)
(***************************************************************************)
Absent == [present |-> FALSE, text |-> <<>>]

Str(s) == [present |-> TRUE, text |-> s]

None == [some |-> FALSE, v |-> NaN]

Some(n) == [some |-> TRUE, v |-> n]

(***************************************************************************)
(* extractTimestampFromQRCode, app/routes/scan.tsx.                        *)
(***************************************************************************)
Year2000Hi == 9466848       \* 946684800000 = Year2000Hi * 10^5
Year2100Hi == 41024448      \* 4102444800000 = Year2100Hi * 10^5

\* /\b(\d{10,13})\b/ : between two word boundaries there is no boundary inside a run
\* of digits, so a match is a whole maximal run of 10 to 13 digits whose neighbours
\* are not word characters; the leftmost one is taken.
IsNumberMatchAt(s, i) ==
    LET run == DigitPrefix(SubSeq(s, i, Len(s)))
        j   == i + Len(run)
    IN  /\ IsDigit(s[i])
        /\ i = 1 \/ ~IsWordChar(s[i - 1])
        /\ j > Len(s) \/ ~IsWordChar(s[j])
        /\ Len(run) >= 10
        /\ Len(run) =< 13

NumberMatch(s) ==
    LET hits == {i \in 1..Len(s) : IsNumberMatchAt(s, i)}
    IN  IF hits = {} THEN <<>>
        ELSE LET i == CHOOSE k \in hits : \A m \in hits : k =< m
             IN  DigitPrefix(SubSeq(s, i, Len(s)))

\* Format 1 of the function.  The ISO and date-text formats (formats 2 and 3) all need
\* a ':' between the hour and the minute; the contents this model draws hold none, so
\* those branches find nothing and the function ends with null.
extractTimestampFromQRCode(qrContent) ==
    LET numberMatch    == NumberMatch(qrContent)
        timestamp      == ParseInt(numberMatch)
        finalTimestamp == IF DecimalLength(timestamp) = 10 THEN Times1000(timestamp) ELSE timestamp
    IN  IF /\ numberMatch # <<>>
           /\ Gt(finalTimestamp, Num(Year2000Hi, 0))
           /\ Lt(finalTimestamp, Num(Year2100Hi, 0))
        THEN Some(finalTimestamp)
        ELSE None

(***************************************************************************)
(* The WebSocket hub, app/utils/websocket.server.ts.                       *)
(***************************************************************************)
Message(type, data) == [type |-> type, data |-> data, id |-> "uuid"]

\* A mutant of sendToClient: readyState is not tested.
sendToClientUntested(box, ws, message) == [box EXCEPT ![ws] = Append(@, message)]

\* sendToClient: only an OPEN socket is sent to
sendToClient(box, ws, message) ==
    IF ready[ws] = "OPEN" THEN [box EXCEPT ![ws] = Append(@, message)] ELSE box

RECURSIVE SendToAll(_, _, _)
SendToAll(box, targets, message) ==
    IF targets = {} THEN box
    ELSE LET ws == CHOOSE w \in targets : TRUE
         IN  SendToAll(sendToClient(box, ws, message), targets \ {ws}, message)

\* broadcast: every socket of the registry
broadcast(box, message) == SendToAll(box, conns, message)

\* notifyNewScan(data); nothing in the program calls it
notifyNewScan(box, data) == broadcast(box, Message("NEW_SCAN", data))

(***************************************************************************)
(* The /scan action, app/routes/scan.tsx.                                  *)
(***************************************************************************)
FreshSeconds == 5

NoResponse ==
    [status |-> 0, success |-> FALSE, error |-> "none", timeDifference |-> None,
     id |-> 0, savedData |-> <<>>, qrTimeDifference |-> None]

ErrorResponse(status, error) ==
    [NoResponse EXCEPT !.status = status, !.error = error]

\* at: the value Date.now() gave the run
NoTrace == [at |-> DateNow, connected |-> FALSE, released |-> FALSE, inserted |-> FALSE]

\* what a run returns (resp), what it did (trace) and the rows it inserted
Outcome(response, did, rows) == [resp |-> response, trace |-> did, rows |-> rows]

\* INSERT INTO scanned_data(data) VALUES($1) RETURNING id, data, scanned_at
InsertedRow(scannedData) == [id |-> serial + 1, data |-> scannedData, scanned_at |-> DateNow]

\* A mutant of StaleOutcome: the staleness check placed after the insert.
StaleOutcomeAfterInsert(scannedData, timeDifference, qrTimeDifference) ==
    Outcome([ErrorResponse(400, "stale") EXCEPT
                 !.timeDifference = Some(timeDifference),
                 !.qrTimeDifference = qrTimeDifference],
            [NoTrace EXCEPT !.connected = TRUE, !.released = TRUE, !.inserted = TRUE],
            <<InsertedRow(scannedData)>>)

\* the early return of a stale scan: the age goes into the response, the database is
\* not touched
StaleOutcome(scannedData, timeDifference, qrTimeDifference) ==
    Outcome([ErrorResponse(400, "stale") EXCEPT
                 !.timeDifference = Some(timeDifference),
                 !.qrTimeDifference = qrTimeDifference],
            NoTrace, <<>>)

\* The action up to the database: the two field checks and the freshness check.  It
\* either has returned (outcome) or goes on with the values it computed.
\* formatTimestamp only renders times for display and is left out.
ScanChecks(form) ==
    LET scannedDataValue   == form.scannedData
        scanTimestampValue == form.scanTimestamp
        scannedData        == scannedDataValue.text
        scanTimestamp      == ParseInt(scanTimestampValue.text)
        currentTimestamp   == DateNow
        timeDifference     == FloorDiffSeconds(currentTimestamp, scanTimestamp)
        qrTimestamp        == extractTimestampFromQRCode(scannedData)
        qrTimeDifference   == IF qrTimestamp.some
                              THEN Some(FloorDiffSeconds(scanTimestamp, qrTimestamp.v))
                              ELSE None
        goesOn             == [returned |-> FALSE, scannedData |-> scannedData,
                               timeDifference |-> timeDifference,
                               qrTimeDifference |-> qrTimeDifference,
                               outcome |-> Outcome(NoResponse, NoTrace, <<>>)]
    IN  IF ~scannedDataValue.present \/ Trim(scannedDataValue.text) = <<>>
        THEN [goesOn EXCEPT !.returned = TRUE,
                            !.outcome = Outcome(ErrorResponse(400, "empty_data"), NoTrace, <<>>)]
        ELSE IF ~scanTimestampValue.present \/ scanTimestampValue.text = <<>>
        THEN [goesOn EXCEPT !.returned = TRUE,
                            !.outcome = Outcome(ErrorResponse(400, "bad_timestamp"), NoTrace, <<>>)]
        ELSE IF Gt(timeDifference, Small(FreshSeconds))
        THEN [goesOn EXCEPT !.returned = TRUE,
                            !.outcome = StaleOutcome(scannedData, timeDifference, qrTimeDifference)]
        ELSE goesOn

\* The action's try block: pool.connect(), the INSERT, client.release() in the finally
\* and the catch.  db is how the database behaves: "ok", "connect_error" (pool.connect
\* throws) or "query_error" (client.query throws).
ScanPersist(scannedData, timeDifference, qrTimeDifference, db) ==
    LET row == InsertedRow(scannedData)
    IN  IF db = "connect_error"
        THEN Outcome(ErrorResponse(500, "db_failed"), NoTrace, <<>>)
        ELSE IF db = "query_error"
        THEN Outcome(ErrorResponse(500, "db_failed"),
                     [NoTrace EXCEPT !.connected = TRUE, !.released = TRUE], <<>>)
        ELSE Outcome([NoResponse EXCEPT
                          !.status = 200, !.success = TRUE,
                          !.id = row.id, !.savedData = row.data,
                          !.timeDifference = Some(timeDifference),
                          !.qrTimeDifference = qrTimeDifference],
                     [NoTrace EXCEPT !.connected = TRUE, !.released = TRUE, !.inserted = TRUE],
                     <<row>>)

ScanOutcome(checks, db) ==
    IF checks.returned THEN checks.outcome
    ELSE ScanPersist(checks.scannedData, checks.timeDifference, checks.qrTimeDifference, db)

\* what one run of the action returns and does
ScanAction(form, db) == ScanOutcome(ScanChecks(form), db)

(***************************************************************************)
(* Requests to POST /scan.  Any client may post any form; the values drawn *)
(* here are the ones that tell the action's branches apart.                *)
(***************************************************************************)
\* the instant the model's clock starts at
Epoch == Num(EpochHi, 0)

\* the submitted scanTimestamp, in ms before the epoch (negative: after it, a client
\* clock ahead of the server's); its age is this plus the server clock
AgesMs == {-3000, 2500, 5500}

\* the generation timestamp a QR code's content carries, in ms before the epoch
QrAgesMs == {0, 60000}

ScanTimestampValues ==
    {Absent, Str(<<>>), Str(<<"a", "b", "c">>)}
        \cup {Str(ToDigits(MinusMs(Epoch, age))) : age \in AgesMs}

\* no content (no field, or a file: not a string), empty content, blank content, plain
\* text, a 13-digit millisecond timestamp (what the generate page encodes) and a
\* 10-digit seconds timestamp
ScannedDataValues ==
    {Absent, Str(<<>>), Str(<<" ", " ">>), Str(<<"4", "2">>)}
        \cup {Str(ToDigits(MinusMs(Epoch, age))) : age \in QrAgesMs}
        \cup {Str(ToDigits(FloorDiffSeconds(Epoch, Small(0))))}

Forms == [scannedData : ScannedDataValues, scanTimestamp : ScanTimestampValues]

DbOutcomes == {"ok", "connect_error", "query_error"}

NoForm == [scannedData |-> Absent, scanTimestamp |-> Absent]

\* rows the table may hold: MaxRows, or while an /events stream is open MaxInserts
\* more than it held when the stream opened
RowLimit == IF sse.opened THEN sse.sinceId + MaxInserts ELSE MaxRows

\* What one run of the action leaves behind: the row it inserted, if any, and the
\* response.  The action never calls the hub: no socket's inbox changes.
Commit(form, run) ==
    /\ Len(store) + Len(run.rows) =< RowLimit
    /\ req' = form
    /\ resp' = run.resp
    /\ trace' = run.trace
    /\ store' = store \o run.rows
    /\ serial' = serial + Len(run.rows)

\* One request handled by the action: form is what the client posted, db how the
\* database behaves if the run gets to it.
PostScan(form, db) ==
    /\ \E checks \in {ScanChecks(form)} :
          /\ db = "ok" \/ ~checks.returned
          /\ \E run \in {ScanOutcome(checks, db)} : Commit(form, run)
    /\ UNCHANGED <<now, hubVars, qs, page, sse, upd, rx, tabs, dbrun>>

\* the clock advances
Tick ==
    /\ now < MaxTicks * ClockStepMs
    /\ now' = now + ClockStepMs
    /\ UNCHANGED <<serverVars, hubVars, qs, page, sse, upd, rx, tabs, dbrun>>

(***************************************************************************)
(* The QrScanner component, app/components/QrScanner.tsx, with the browser *)
(* objects it drives.  qs is a record:                                     *)
(*   mounted                the component is mounted; videoRef.current and *)
(*                          canvasRef.current are non-null exactly then    *)
(*   isScanning, scannedData, error, cameraPermissionError   useState      *)
(*   autoSave               useState of the component's auto-save variant; *)
(*                          FALSE is the component without auto-save       *)
(*   isLoopActive, animationFrameId, streamRef               useRef        *)
(*                          (0 stands for null)                            *)
(*   srcObject, onloadedmetadata, onerror, readyState        the <video>   *)
(*   loading                the video is loading its srcObject             *)
(*   plays                  video.play() promises not yet settled          *)
(*   frames                 animation frames requested and not yet run     *)
(*   gum                    getUserMedia requests not yet settled, each    *)
(*                          named by the startScan that made it            *)
(*   live                   MediaStreams whose tracks have not been        *)
(*                          stopped, each named by its request             *)
(*   sessions               startScan calls so far                         *)
(*   calls                  history: the getUserMedia calls made           *)
(*   decodedAt              history: when scannedData was decoded          *)
(*   decoded                history: the session of every decode, in order *)
(*   supported              navigator.mediaDevices.getUserMedia exists     *)
(*   fetcher                useFetcher: state, data, the form in flight;   *)
(*                          history: capturedAt (decodedAt of the scan in  *)
(*                          flight), submits (who submitted the current    *)
(*                          scan, "user" or "auto", in order)              *)
(* State updates are followed at once by the render and the effects they   *)
(* cause.  frameCounter and debugMessages only feed the log and are left   *)
(* out.                                                                    *)
(***************************************************************************)
MaxSessions == 2        \* startScan calls
MaxFrames == 2          \* animation frames pending at once
MaxSaves == 2           \* submissions of one decoded scan

HAVE_METADATA == 1
HAVE_ENOUGH_DATA == 4

NoData == [some |-> FALSE, v |-> NoResponse]

Data(response) == [some |-> TRUE, v |-> response]

NewFetcher ==
    [state |-> "idle", data |-> NoData, form |-> NoForm, capturedAt |-> Epoch, submits |-> <<>>]

NewScanner(autoSave) ==
    [mounted |-> TRUE, isScanning |-> FALSE, scannedData |-> Absent, error |-> "",
     cameraPermissionError |-> FALSE, autoSave |-> autoSave, supported |-> TRUE,
     isLoopActive |-> FALSE, animationFrameId |-> 0, streamRef |-> 0,
     srcObject |-> 0, onloadedmetadata |-> FALSE, onerror |-> FALSE,
     readyState |-> 0, loading |-> FALSE, plays |-> 0,
     frames |-> {}, gum |-> {}, live |-> {}, sessions |-> 0, calls |-> <<>>,
     decodedAt |-> Epoch, decoded |-> <<>>, fetcher |-> NewFetcher]

\* the model's bounds hold in q
WithinBounds(q) ==
    /\ q.sessions =< MaxSessions
    /\ q.frames \subseteq 1..MaxFrames
    /\ Len(q.fetcher.submits) =< MaxSaves

cancelAnimationFrame(q, id) == [q EXCEPT !.frames = @ \ {id}]

\* requestAnimationFrame(tick): a new pending frame, named by the least free number
requestAnimationFrame(q) ==
    LET id == CHOOSE f \in 1..(MaxFrames + 1) :
                  /\ f \notin q.frames
                  /\ \A g \in 1..(MaxFrames + 1) : g \notin q.frames => f =< g
    IN  [q EXCEPT !.frames = @ \cup {id}, !.animationFrameId = id]

\* stream.getTracks().forEach(track => track.stop())
StopTracks(q, stream) == [q EXCEPT !.live = @ \ {stream}]

\* video.srcObject = stream (or null): the element starts over with the new source
SetSrcObject(q, stream) ==
    [q EXCEPT !.srcObject = stream, !.readyState = 0, !.loading = stream # 0]

\* video.load()
Load(q) == [q EXCEPT !.readyState = 0, !.loading = q.srcObject # 0]

\* only the loop flag is cleared
ReleaseLoopOnly(q) == [q EXCEPT !.isLoopActive = FALSE]

\* Stop the loop, cancel the pending frame, stop the stream of streamRef: the opening
\* of stopScan, of the effect's cleanup and of the effect's else branch.
ReleaseLoopAndStream(q) ==
    LET a == [q EXCEPT !.isLoopActive = FALSE]
        b == IF a.animationFrameId # 0
             THEN [cancelAnimationFrame(a, a.animationFrameId) EXCEPT !.animationFrameId = 0]
             ELSE a
    IN  IF b.streamRef # 0
        THEN [StopTracks(b, b.streamRef) EXCEPT !.streamRef = 0]
        ELSE b

\* the cleanup that effect returns
EffectCleanup(q) ==
    LET r == ReleaseLoopAndStream(q)
    IN  IF r.mounted
        THEN [SetSrcObject(r, 0) EXCEPT !.onloadedmetadata = FALSE, !.onerror = FALSE]
        ELSE r

\* useEffect[isScanning], isScanning false
EffectIdle(q) ==
    LET r == ReleaseLoopAndStream(q)
    IN  IF r.mounted THEN Load(SetSrcObject(r, 0)) ELSE r

\* The failures of navigator.mediaDevices.getUserMedia (the names of the DOMException)
GumErrors == {"NotAllowedError", "NotFoundError", "NotReadableError"}

\* useEffect[isScanning], isScanning true, up to the await.  Without
\* navigator.mediaDevices.getUserMedia the effect reports it and calls
\* setIsScanning(false), whose render runs the cleanup and the idle effect; otherwise
\* the getUserMedia request of this startScan is made.
EffectScanning(q) ==
    LET a == [q EXCEPT !.isLoopActive = FALSE]
    IN  IF ~q.supported
        THEN EffectIdle(EffectCleanup([a EXCEPT !.error = "unsupported",
                                                !.cameraPermissionError = TRUE,
                                                !.isScanning = FALSE]))
        ELSE [a EXCEPT !.gum = @ \cup {q.sessions},
                       !.calls = Append(@, q.sessions)]

\* setIsScanning(value) with the render it causes: the cleanup of the last effect, then
\* the effect.  No render without a change, nor once unmounted.
setIsScanning(q, value) ==
    IF ~q.mounted \/ q.isScanning = value THEN q
    ELSE IF value THEN EffectScanning([q EXCEPT !.isScanning = TRUE])
    ELSE EffectIdle(EffectCleanup([q EXCEPT !.isScanning = FALSE]))

\* setError / setCameraPermissionError
setError(q, message) == IF q.mounted THEN [q EXCEPT !.error = message] ELSE q

setCameraPermissionError(q, value) ==
    IF q.mounted THEN [q EXCEPT !.cameraPermissionError = value] ELSE q

\* setScannedData(code.data); the time and the submissions of the scan are history
setScannedData(q, data) ==
    IF q.mounted
    THEN [q EXCEPT !.scannedData = data, !.decodedAt = DateNow, !.fetcher.submits = <<>>,
                   !.decoded = Append(@, q.sessions)]
    ELSE q

\* stopScan as a closure of a render where isScanning had the value isScanning
stopScan(q, isScanning) ==
    LET r == ReleaseLoopAndStream(q)
        v == IF r.mounted
             THEN Load([SetSrcObject(r, 0) EXCEPT !.onloadedmetadata = FALSE, !.onerror = FALSE])
             ELSE r
    IN  IF isScanning THEN setIsScanning(v, FALSE) ELSE v

\* startScan
startScan(q) ==
    LET a == [q EXCEPT !.scannedData = Absent, !.error = "",
                       !.cameraPermissionError = FALSE,
                       !.fetcher.data = NoData,
                       !.sessions = @ + 1]
    IN  setIsScanning(a, TRUE)

\* handlePlay up to its await: video.play() is called
handlePlay(q) == [q EXCEPT !.plays = @ + 1]

\* setupCameraAndStartLoop after the await of getUserMedia, which returned stream
AfterGetUserMedia(q, stream) ==
    LET a == [q EXCEPT !.streamRef = stream]
        b == [SetSrcObject(a, stream) EXCEPT !.onloadedmetadata = TRUE, !.onerror = TRUE]
    IN  IF a.mounted
        THEN IF b.readyState >= HAVE_METADATA THEN handlePlay(b) ELSE b
        ELSE stopScan(a, TRUE)

\* setupCameraAndStartLoop's catch: getUserMedia failed with err, which is logged only;
\* the message shown is the same for every err
CatchGetUserMedia(q, err) ==
    setIsScanning(setCameraPermissionError(setError(q, "camera"), TRUE), FALSE)

\* handlePlay after the await of video.play()
AfterPlay(q) ==
    LET a == [q EXCEPT !.isLoopActive = TRUE]
        b == IF a.animationFrameId # 0 THEN cancelAnimationFrame(a, a.animationFrameId) ELSE a
    IN  requestAnimationFrame(b)

\* handlePlay's catch
CatchPlay(q) == stopScan(setCameraPermissionError(setError(q, "play"), TRUE), TRUE)

\* video.onerror
OnVideoError(q) == stopScan(setCameraPermissionError(setError(q, "video"), TRUE), TRUE)

\* tick, run for a frame in which jsQR finds code (Absent: no code in the picture)
tick(q, code) ==
    IF ~q.isLoopActive
    THEN [q EXCEPT !.animationFrameId = 0]
    ELSE IF ~q.mounted \/ q.streamRef = 0
    THEN [q EXCEPT !.isLoopActive = FALSE, !.animationFrameId = 0]
    ELSE IF /\ q.readyState >= HAVE_ENOUGH_DATA
            /\ code.present
            /\ code.text # <<>>
            /\ Trim(code.text) # <<>>
    THEN stopScan(setScannedData(q, code), TRUE)
    ELSE IF q.isLoopActive
    THEN requestAnimationFrame(q)
    ELSE [q EXCEPT !.animationFrameId = 0]

\* the cleanup of the component's last effect, run at unmount
UnmountCleanup(q) ==
    LET a == [q EXCEPT !.isLoopActive = FALSE]
        b == IF a.animationFrameId # 0 THEN cancelAnimationFrame(a, a.animationFrameId) ELSE a
    IN  IF b.streamRef # 0
        THEN [StopTracks(b, b.streamRef) EXCEPT !.streamRef = 0]
        ELSE b

\* fetcher.submit(formData, {method: "post", action: "/scan"}), and the submit of
\* fetcher.Form: the form holds scannedData and nothing else
Submit(q, by) ==
    [q EXCEPT !.fetcher.state = "submitting",
              !.fetcher.form = [scannedData |-> q.scannedData, scanTimestamp |-> Absent],
              !.fetcher.capturedAt = q.decodedAt,
              !.fetcher.submits = Append(@, by)]

\* The auto-save effect, useEffect[scannedData, autoSave, fetcher]: it runs after every
\* render in which one of the three changed; useFetcher returns a new object whenever
\* the fetcher's state or data changes.
AutoSaveEffect(q) ==
    IF /\ q.mounted
       /\ q.scannedData.present
       /\ q.scannedData.text # <<>>
       /\ q.autoSave
       /\ q.fetcher.state = "idle"
    THEN Submit(q, "auto")
    ELSE q

\* what jsQR may find in a frame: nothing, a blank code, a code
DecodeResults == {Absent, Str(<<" ">>), Str(<<"4", "2">>)}

\* a step of the scanner that leaves the server alone
ScannerStep(q) ==
    /\ WithinBounds(q)
    /\ qs' = q
    /\ UNCHANGED <<now, serverVars, hubVars, page, sse, upd, rx, tabs, dbrun>>

\* click on the start or the rescan button, shown while not scanning
StartClick ==
    /\ qs.mounted
    /\ ~qs.isScanning
    /\ qs.sessions < MaxSessions
    /\ ScannerStep(AutoSaveEffect(startScan(qs)))

\* click on the stop button, shown while scanning
StopClick ==
    /\ qs.mounted
    /\ qs.isScanning
    /\ ScannerStep(stopScan(qs, qs.isScanning))

\* the component is unmounted: the refs are detached, then the cleanups run
Unmount ==
    /\ qs.mounted
    /\ LET a == [qs EXCEPT !.mounted = FALSE]
           b == IF a.isScanning THEN EffectCleanup(a) ELSE a
       IN  ScannerStep(UnmountCleanup(b))

\* the getUserMedia request of session s is granted: a new stream
GumResolve(s) ==
    /\ s \in qs.gum
    /\ ScannerStep(AfterGetUserMedia([qs EXCEPT !.gum = @ \ {s}, !.live = @ \cup {s}], s))

\* the getUserMedia request of session s fails with err
GumReject(s, err) ==
    /\ s \in qs.gum
    /\ ScannerStep(CatchGetUserMedia([qs EXCEPT !.gum = @ \ {s}], err))

\* the video fires loadedmetadata
VideoLoadedMetadata ==
    /\ qs.mounted
    /\ qs.loading
    /\ LET a == [qs EXCEPT !.readyState = HAVE_METADATA, !.loading = FALSE]
       IN  ScannerStep(IF a.onloadedmetadata THEN handlePlay(a) ELSE a)

\* the video has data to show
VideoCanPlay ==
    /\ qs.mounted
    /\ qs.srcObject # 0
    /\ qs.readyState = HAVE_METADATA
    /\ ScannerStep([qs EXCEPT !.readyState = HAVE_ENOUGH_DATA])

\* the video fires error
VideoError ==
    /\ qs.mounted
    /\ qs.srcObject # 0
    /\ qs.onerror
    /\ ScannerStep(OnVideoError(qs))

\* a video.play() promise is fulfilled
PlayResolve ==
    /\ qs.plays > 0
    /\ ScannerStep(AfterPlay([qs EXCEPT !.plays = @ - 1]))

\* a video.play() promise is rejected
PlayReject ==
    /\ qs.plays > 0
    /\ ScannerStep(CatchPlay([qs EXCEPT !.plays = @ - 1]))

\* the browser runs pending animation frame f
Frame(f, code) ==
    /\ f \in qs.frames
    /\ ScannerStep(AutoSaveEffect(tick([qs EXCEPT !.frames = @ \ {f}], code)))

\* click on the save button, enabled while there is a scan and no submission under way
SaveClick ==
    /\ qs.mounted
    /\ qs.scannedData.present
    /\ qs.scannedData.text # <<>>
    /\ qs.fetcher.state # "submitting"
    /\ ScannerStep(Submit(qs, "user"))

\* the /scan action handles the fetcher's submission and answers
ServerScan(db) ==
    /\ qs.fetcher.state = "submitting"
    /\ \E checks \in {ScanChecks(qs.fetcher.form)} :
          /\ db = "ok" \/ ~checks.returned
          /\ \E run \in {ScanOutcome(checks, db)} :
                /\ Commit(qs.fetcher.form, run)
                /\ qs' = [qs EXCEPT !.fetcher.state = "loading",
                                    !.fetcher.data = Data(run.resp)]
    /\ UNCHANGED <<now, hubVars, page, sse, upd, rx, tabs, dbrun>>

\* the fetcher is idle again; the component renders with the new fetcher
FetcherIdle ==
    /\ qs.fetcher.state = "loading"
    /\ ScannerStep(AutoSaveEffect([qs EXCEPT !.fetcher.state = "idle"]))

(***************************************************************************)
(* The generate page as a receiver of scan messages, GeneratePage in       *)
(* app/routes/generate.tsx with useWebSocket's onmessage.  page is a       *)
(* record:                                                                 *)
(*   lastMessage          useWebSocket's state                             *)
(*   currentDisplayData   useState: what the page shows                    *)
(*   jobs                 QRCode.toDataURL calls not yet settled, each     *)
(*                        with the record of the message that started it   *)
(*   shownId              history: the id of the record now shown, 0 while *)
(*                        the page shows what its loader gave it           *)
(* The size and error-correction settings stay at their defaults.          *)
(***************************************************************************)
MaxRecords == 2         \* scan records the peer may deliver
MaxJobs == 2            \* image generations under way at once

\* the record with this id, as a message's data: {id, content}
ScanRecord(id) == [some |-> TRUE, id |-> id, content |-> NatDigits(40 + id)]

NoRecord == [some |-> FALSE, id |-> 0, content |-> <<>>]

NoMessage == [type |-> "", data |-> NoRecord]

\* what the socket may deliver: a scan record, a scan message without data, the welcome
WsMessages ==
    {[type |-> "qr_scanned", data |-> ScanRecord(id)] : id \in 1..MaxRecords}
        \cup {[type |-> "qr_scanned", data |-> NoRecord],
              [type |-> "connection", data |-> NoRecord]}

\* QRCode.toDataURL(content): the image that encodes content
toDataURL(content) == [image |-> content]

NewPage ==
    [lastMessage |-> NoMessage,
     currentDisplayData |-> [qrCodeDataUrl |-> toDataURL(<<>>), sourceText |-> <<>>,
                             intent |-> "loader", timestamp |-> Epoch, error |-> ""],
     jobs |-> <<>>,
     shownId |-> 0]

\* useEffect[lastMessage]: a scan message with data starts the generation of its image
OnLastMessage(p) ==
    IF p.lastMessage.type = "qr_scanned" /\ p.lastMessage.data.some
    THEN [p EXCEPT !.jobs = Append(@, p.lastMessage.data)]
    ELSE p

\* generateQRForScannedData after the await of toDataURL
AfterToDataURL(p, record) ==
    [p EXCEPT !.currentDisplayData =
                  [qrCodeDataUrl |-> toDataURL(record.content),
                   sourceText |-> record.content,
                   intent |-> "websocket-scanned-data",
                   timestamp |-> DateNow,
                   error |-> ""],
              !.shownId = record.id]

RemoveAt(s, i) == SubSeq(s, 1, i - 1) \o SubSeq(s, i + 1, Len(s))

PageStep(p) ==
    /\ Len(p.jobs) =< MaxJobs
    /\ page' = p
    /\ UNCHANGED <<now, serverVars, hubVars, qs, sse, upd, rx, tabs, dbrun>>

\* ws.onmessage: setLastMessage(JSON.parse(event.data)), then the effect
PageMessage(message) ==
    /\ message \in WsMessages
    /\ PageStep(OnLastMessage([page EXCEPT !.lastMessage = message]))

\* the toDataURL promise of job i is fulfilled
PageRendered(i) ==
    /\ i \in 1..Len(page.jobs)
    /\ PageStep(AfterToDataURL([page EXCEPT !.jobs = RemoveAt(@, i)], page.jobs[i]))

\* the toDataURL promise of job i is rejected: the catch only logs
PageRenderFailed(i) ==
    /\ i \in 1..Len(page.jobs)
    /\ PageStep([page EXCEPT !.jobs = RemoveAt(@, i)])

(***************************************************************************)
(* The /events push stream, loader of app/routes/events.tsx.  sse is one   *)
(* stream:                                                                 *)
(*   opened       the loader has run                                       *)
(*   lastId       the lastId parameter of the request's URL                *)
(*   isActive     the flag of start()                                      *)
(*   pollInterval, heartbeatInterval   the timers are set                  *)
(*   polls        the polls in flight, oldest first: a poll awaits         *)
(*                pool.connect() and the query (stage "connect"), or the   *)
(*                database has evaluated its query and the result is on    *)
(*                its way back (stage "result", rows what the query found) *)
(*   out          what send() enqueued, in order                           *)
(*   closed       controller.close() was called                            *)
(*   dropped      history: sends that found the stream not active          *)
(*   sinceId      history: the highest id of the table when the stream     *)
(*                opened                                                   *)
(*   clients      pool clients the stream's polls have checked out         *)
(***************************************************************************)
MaxPolls == 2           \* polls in flight at once
MaxSent == 3            \* messages enqueued on the stream

NoStream ==
    [opened |-> FALSE, lastId |-> Absent, isActive |-> FALSE, pollInterval |-> FALSE,
     heartbeatInterval |-> FALSE, polls |-> <<>>, out |-> <<>>, closed |-> FALSE,
     dropped |-> 0, sinceId |-> 0, clients |-> 0]

LastIdValues == {Absent, Str(<<"0">>), Str(<<"1">>), Str(<<"5">>)}

SseMessage(type, row) == [type |-> type, data |-> row]

NoRow == [id |-> 0, data |-> <<>>, scanned_at |-> Epoch]

\* send(data) without its isActive test
sendAlways(s, message) == [s EXCEPT !.out = Append(@, message)]

\* send(data): nothing once the stream is not active
send(s, message) ==
    IF ~s.isActive THEN [s EXCEPT !.dropped = @ + 1]
    ELSE [s EXCEPT !.out = Append(@, message)]

\* the row with the lowest id among those the WHERE clause keeps
OldestRow(rows, lastId) ==
    LET found == {i \in 1..Len(rows) :
                     (lastId.present /\ lastId.text # <<>>)
                         => Gt(Small(rows[i].id), ParseInt(lastId.text))}
    IN  IF found = {} THEN <<>>
        ELSE <<rows[CHOOSE i \in found : \A j \in found : rows[i].id =< rows[j].id]>>

\* SELECT id, data, scanned_at FROM scanned_data [WHERE id > $1] ORDER BY id DESC LIMIT 1
LatestRow(rows, lastId) ==
    LET found == {i \in 1..Len(rows) :
                     (lastId.present /\ lastId.text # <<>>)
                         => Gt(Small(rows[i].id), ParseInt(lastId.text))}
    IN  IF found = {} THEN <<>>
        ELSE <<rows[CHOOSE i \in found : \A j \in found : rows[j].id =< rows[i].id]>>

Poll(stage, rows) == [stage |-> stage, rows |-> rows]

\* a poll that drops what its query found
AfterQuerySilent(s, rows) == s

\* the poll once client.query() has resolved with rows: the send of the newest row
AfterQuery(s, rows) ==
    IF Len(rows) > 0 THEN send(s, SseMessage("new_scan", rows[1])) ELSE s

\* const client = await pool.connect() resolved
PoolConnect(s) == [s EXCEPT !.clients = @ + 1]

\* A mutant of ClientRelease: the finally block releases nothing.
ClientReleaseNothing(s) == s

\* finally { client.release() }
ClientRelease(s) == [s EXCEPT !.clients = @ - 1]

\* the catch of the poll: pool.connect() or client.query() rejected
CatchPoll(s) == send(s, SseMessage("error", NoRow))

SseStep(s) ==
    /\ Len(s.polls) =< MaxPolls
    /\ Len(s.out) =< MaxSent
    /\ sse' = s
    /\ UNCHANGED <<now, serverVars, hubVars, qs, page, upd, rx, tabs, dbrun>>

\* GET /events?lastId=...: start() sends the welcome and sets both timers
SseOpen(lastId) ==
    /\ ~sse.opened
    /\ SseStep(send([sse EXCEPT !.opened = TRUE, !.lastId = lastId, !.isActive = TRUE,
                                !.pollInterval = TRUE, !.heartbeatInterval = TRUE,
                                !.sinceId = serial],
                    SseMessage("connected", NoRow)))

\* pollInterval fires: a poll starts and awaits a client
SsePollTick ==
    /\ sse.pollInterval
    /\ SseStep(IF ~sse.isActive THEN sse
               ELSE [sse EXCEPT !.polls = Append(@, Poll("connect", <<>>))])

\* the database serves poll i: the poll gets its client and the query is evaluated on
\* the table as it is now; or pool.connect() fails and the catch runs; or the query
\* fails, the finally block releases the client and the catch runs
SsePollQuery(i, db) ==
    /\ i \in 1..Len(sse.polls)
    /\ sse.polls[i].stage = "connect"
    /\ IF db = "ok"
       THEN SseStep(PoolConnect([sse EXCEPT !.polls[i] =
                                    Poll("result", LatestRow(store, sse.lastId))]))
       ELSE IF db = "connect_error"
       THEN SseStep(CatchPoll([sse EXCEPT !.polls = RemoveAt(@, i)]))
       ELSE SseStep(CatchPoll(ClientRelease(PoolConnect(
                        [sse EXCEPT !.polls = RemoveAt(@, i)]))))

\* client.query() of poll i resolves: the poll sends what the query found, then the
\* finally block releases its client
SsePollResult(i) ==
    /\ i \in 1..Len(sse.polls)
    /\ sse.polls[i].stage = "result"
    /\ SseStep(ClientRelease(AfterQuery([sse EXCEPT !.polls = RemoveAt(@, i)],
                                        sse.polls[i].rows)))

\* heartbeatInterval fires
SseHeartbeat ==
    /\ sse.heartbeatInterval
    /\ SseStep(send(sse, SseMessage("heartbeat", NoRow)))

\* request.signal fires abort
SseAbort ==
    /\ sse.opened
    /\ ~sse.closed
    /\ SseStep([sse EXCEPT !.isActive = FALSE, !.pollInterval = FALSE,
                           !.heartbeatInterval = FALSE, !.closed = TRUE])

\* a scan that the /scan action accepts, posted while the stream is open
FreshForms ==
    {form \in Forms :
        /\ form.scannedData = Str(<<"4", "2">>)
        /\ form.scanTimestamp = Str(ToDigits(MinusMs(Epoch, -3000)))}

\* the /scan action stores a scan while the stream is open
InsertDuringStream(form) ==
    /\ sse.opened
    /\ serial < sse.sinceId + MaxInserts
    /\ PostScan(form, "ok")

(***************************************************************************)
(* The /api/check-updates loader (app/routes/api.check-updates.tsx).  upd  *)
(* is the JSON of its last response, status 0 before the first request.    *)
(***************************************************************************)
NoUpdate ==
    [status |-> 0, hasUpdate |-> FALSE, latestScanId |-> 0, lastKnownId |-> Small(0),
     param |-> Absent, connected |-> FALSE, released |-> 0]

LastKnownIdValues == LastIdValues \cup {Str(<<"a">>)}

\* A mutant of LastKnownId: parseInt's NaN is not replaced by 0.
LastKnownIdKeepsNaN(param) ==
    ParseInt(IF param.present /\ param.text # <<>> THEN param.text ELSE <<"0">>)

\* parseInt(url.searchParams.get("lastKnownId") || "0", 10) || 0
LastKnownId(param) ==
    LET lastKnownIdStr == IF param.present /\ param.text # <<>> THEN param.text ELSE <<"0">>
        parsed == ParseInt(lastKnownIdStr)
    IN  IF parsed.nan THEN Small(0) ELSE parsed

\* SELECT id, data, scanned_at FROM scanned_data ORDER BY id DESC LIMIT 1, and the
\* response built from it; the catch answers 500 without an update.  param, connected
\* and released are history: the query parameter of the request, pool.connect()
\* resolved, and the calls of client.release()
CheckUpdatesResult(param, db) ==
    LET lastKnownId == LastKnownId(param)
        rows == LatestRow(store, Absent)
    IN  IF db # "ok"
        THEN [status |-> 500, hasUpdate |-> FALSE, latestScanId |-> 0,
              lastKnownId |-> lastKnownId, param |-> param,
              connected |-> db # "connect_error",
              released |-> IF db # "connect_error" THEN 1 ELSE 0]
        ELSE [status |-> 200,
              hasUpdate |-> Len(rows) > 0 /\ Gt(Small(rows[1].id), lastKnownId),
              latestScanId |-> IF Len(rows) > 0 THEN rows[1].id ELSE 0,
              lastKnownId |-> lastKnownId, param |-> param,
              connected |-> TRUE, released |-> 1]

\* GET /api/check-updates?lastKnownId=...
CheckUpdates(param, db) ==
    /\ param \in LastKnownIdValues
    /\ upd' = CheckUpdatesResult(param, db)
    /\ UNCHANGED <<now, serverVars, hubVars, qs, page, sse, rx, tabs, dbrun>>

(***************************************************************************)
(* The other handlers that read the store: the loader and the action of    *)
(* app/routes/generate.tsx and the loader of app/routes/test-db.tsx.       *)
(* dbrun is the last run: which handler, the status it answered with,      *)
(* whether pool.connect() resolved and how often client.release() was      *)
(* called.  The QR code image they render is left out.                     *)
(***************************************************************************)
NoRun == [handler |-> "none", status |-> 0, connected |-> FALSE, released |-> 0]

\* try { client = await pool.connect(); try { query } finally { client.release() } }
\* catch { ... }: what the run did with the pool
PoolUse(handler, status, db) ==
    [handler |-> handler, status |-> status,
     connected |-> db # "connect_error",
     released |-> IF db # "connect_error" THEN 1 ELSE 0]

\* the generate loader: no database with ?uuid=true or ?skipDb=true; a database error
\* falls back to a new UUID
GenerateLoaderRun(skip, db) ==
    IF skip THEN [NoRun EXCEPT !.handler = "generate.loader", !.status = 200]
    ELSE PoolUse("generate.loader", 200, db)

GenerateIntents == {"generate-uuid-via-action", "generate-from-latest-scan", "other"}

\* the generate action: only the intent generate-from-latest-scan reads the store
GenerateActionRun(intent, db) ==
    IF intent = "generate-uuid-via-action"
    THEN [NoRun EXCEPT !.handler = "generate.action", !.status = 200]
    ELSE IF intent = "generate-from-latest-scan"
    THEN PoolUse("generate.action", 200, db)
    ELSE [NoRun EXCEPT !.handler = "generate.action", !.status = 400]

\* the test-db loader: its inner catch answers a failing query, its outer catch a
\* failing connect
TestDbRun(db) == PoolUse("test-db", IF db = "ok" THEN 200 ELSE 500, db)

RunStep(run) ==
    /\ dbrun' = run
    /\ UNCHANGED <<now, serverVars, hubVars, qs, page, sse, upd, rx, tabs>>

\* GET /generate
GenerateLoader(skip, db) ==
    /\ skip \in BOOLEAN
    /\ RunStep(GenerateLoaderRun(skip, db))

\* POST /generate
GenerateAction(intent, db) ==
    /\ intent \in GenerateIntents
    /\ RunStep(GenerateActionRun(intent, db))

\* GET /test-db
TestDb(db) ==
    /\ db \in DbOutcomes
    /\ RunStep(TestDbRun(db))

(***************************************************************************)
(* The hub's handlers (app/utils/websocket.server.ts).  hub:               *)
(*   wss                the server exists (this.wss is not null)           *)
(*   heartbeatInterval  "none" for null, "armed" once initialize() set the *)
(*                      timer, "cleared" once close() cleared it           *)
(*   servers            the WebSocketServers that have not been closed     *)
(*   timers             the interval timers that are running               *)
(*   created            history: WebSocketServers constructed              *)
(*   calls              history: calls of initialize()                     *)
(* A socket is "NEW" until the server accepts it; "CLOSE_RECEIVED": the    *)
(* client started the closing handshake, readyState is CLOSING and the     *)
(* close event is yet to come; "CLOSING": the hub closed it or it emitted  *)
(* error.                                                                  *)
(***************************************************************************)
MaxInbox == 2           \* messages a socket receives

MaxInitialize == 3      \* calls of initialize(), the one at module load included

ClientMessageTypes == {"GENERATE_UUID", "NEW_SCAN", "PING"}

\* new QRCodeWebSocketManager()
NewManager ==
    [wss |-> FALSE, heartbeatInterval |-> "none", servers |-> 0, timers |-> 0,
     created |-> 0, calls |-> 0]

\* A mutant of initialize: an existing server is not tested for.
initializeUntested(h) ==
    [h EXCEPT !.wss = TRUE, !.heartbeatInterval = "armed", !.servers = @ + 1,
              !.timers = @ + 1, !.created = @ + 1, !.calls = @ + 1]

\* initialize(port): nothing when the server exists, else a new WebSocketServer and a
\* new interval timer
initialize(h) ==
    IF h.wss THEN [h EXCEPT !.calls = @ + 1]
    ELSE [h EXCEPT !.wss = TRUE, !.heartbeatInterval = "armed", !.servers = @ + 1,
                   !.timers = @ + 1, !.created = @ + 1, !.calls = @ + 1]

\* the module is loaded: qrWebSocketManager.initialize(wsPort)
LoadedManager == initialize(NewManager)

\* what a client sends: the JSON of a message of one of these types, or text that
\* JSON.parse rejects
ClientFrames == ClientMessageTypes \cup {"not JSON"}

\* message.data of a client's message
ClientData == {<<"7">>, <<"8">>}

\* handleMessage(ws, message): two types are broadcast, anything else is logged
handleMessage(box, type, data) ==
    IF type = "GENERATE_UUID" THEN broadcast(box, Message("GENERATE_UUID", <<>>))
    ELSE IF type = "NEW_SCAN" THEN broadcast(box, Message("NEW_SCAN", data))
    ELSE box

\* ws.on('message'): JSON.parse, then handleMessage; the catch logs
onMessage(box, frame, data) ==
    IF frame = "not JSON" THEN box ELSE handleMessage(box, frame, data)

\* close() that leaves the heartbeat timer running
closeKeepingTimer ==
    [conns |-> {},
     ready |-> [ws \in Sockets |->
                  IF ws \in conns /\ ready[ws] \in {"OPEN", "CLOSE_RECEIVED"}
                  THEN "CLOSING" ELSE ready[ws]],
     hub |-> [hub EXCEPT !.wss = FALSE, !.servers = IF hub.wss THEN @ - 1 ELSE @]]

\* close(): clearInterval, ws.close() for every socket of the registry, clear(),
\* wss.close(), wss = null
close ==
    [conns |-> {},
     ready |-> [ws \in Sockets |->
                  IF ws \in conns /\ ready[ws] \in {"OPEN", "CLOSE_RECEIVED"}
                  THEN "CLOSING" ELSE ready[ws]],
     hub |-> [hub EXCEPT !.wss = FALSE,
                         !.servers = IF hub.wss THEN @ - 1 ELSE @,
                         !.heartbeatInterval = IF @ = "armed" THEN "cleared" ELSE @,
                         !.timers = IF hub.heartbeatInterval = "armed" THEN @ - 1 ELSE @]]

HubStep(box) ==
    /\ \A ws \in Sockets : Len(box[ws]) =< MaxInbox
    /\ inbox' = box
    /\ UNCHANGED <<now, serverVars, qs, page, sse, upd, rx, tabs, dbrun>>

\* wss.on('connection'): the socket is registered and welcomed
WsConnection(ws) ==
    /\ hub.wss
    /\ ready[ws] = "NEW"
    /\ ready' = [ready EXCEPT ![ws] = "OPEN"]
    /\ conns' = conns \cup {ws}
    /\ HubStep([inbox EXCEPT ![ws] = Append(@, Message("HEARTBEAT", <<>>))])
    /\ hub' = hub

\* ws.on('message'): a client's message reaches the hub
WsMessage(ws, frame, data) ==
    /\ ready[ws] \in {"OPEN", "CLOSING"}
    /\ HubStep(onMessage(inbox, frame, data))
    /\ UNCHANGED <<conns, ready, hub>>

\* the client of ws starts the closing handshake: readyState becomes CLOSING, the
\* close event has not fired yet
WsCloseFrame(ws) ==
    /\ ready[ws] = "OPEN"
    /\ ready' = [ready EXCEPT ![ws] = "CLOSE_RECEIVED"]
    /\ HubStep(inbox)
    /\ UNCHANGED <<conns, hub>>

\* the heartbeat timer fires
HubHeartbeat ==
    /\ hub.heartbeatInterval = "armed"
    /\ HubStep(broadcast(inbox, Message("HEARTBEAT", <<>>)))
    /\ UNCHANGED <<conns, ready, hub>>

\* A mutant of WsError: the error handler leaves the socket in the registry.
WsErrorKeepingSocket(ws) ==
    /\ ready[ws] \in {"OPEN", "CLOSE_RECEIVED"}
    /\ ready' = [ready EXCEPT ![ws] = "CLOSING"]
    /\ conns' = conns
    /\ HubStep(inbox)
    /\ hub' = hub

\* ws.on('error'): the socket leaves the registry; the transport is going down
WsError(ws) ==
    /\ ready[ws] \in {"OPEN", "CLOSE_RECEIVED"}
    /\ ready' = [ready EXCEPT ![ws] = "CLOSING"]
    /\ conns' = conns \ {ws}
    /\ HubStep(inbox)
    /\ hub' = hub

\* ws.on('close'): the connection is gone, whoever closed it
WsClose(ws) ==
    /\ ready[ws] \in {"OPEN", "CLOSE_RECEIVED", "CLOSING"}
    /\ ready' = [ready EXCEPT ![ws] = "CLOSED"]
    /\ conns' = conns \ {ws}
    /\ HubStep(inbox)
    /\ hub' = hub

\* qrWebSocketManager.initialize() is called
HubInitialize ==
    /\ hub.calls < MaxInitialize
    /\ hub' = initialize(hub)
    /\ HubStep(inbox)
    /\ UNCHANGED <<conns, ready>>

\* qrWebSocketManager.close() is called
HubClose ==
    /\ \E after \in {close} :
          /\ conns' = after.conns
          /\ ready' = after.ready
          /\ hub' = after.hub
    /\ HubStep(inbox)

(***************************************************************************)
(* The cross-tab signal of a new scan.  The scanner page writes two        *)
(* localStorage keys after a successful save (QrScanner's fetcher effect); *)
(* every generate page open in another tab of the origin receives a        *)
(* storage event per key written (app/routes/generate.tsx).  tabs:         *)
(*   latestScannedDataTimestamp, lastRevalidatedTimestamp                  *)
(*                  the localStorage items, 0 for null; the origin's tabs  *)
(*                  share them                                             *)
(*   autoReloadEnabled  display tab -> its state                           *)
(*   events         display tab -> the storage events queued for it (keys) *)
(*   revalidating   display tab -> a revalidation is in flight             *)
(*   revalidated    history: display tab -> the timestamps it called       *)
(*                  revalidate() for                                       *)
(*   calls          history: display tab -> its calls of revalidate()      *)
(*   turnedOff      history: display tab -> auto-reload was ever disabled  *)
(*   signals        scans signalled so far; the timestamp of a signal      *)
(*   toggles        history: clicks on the auto-reload toggle              *)
(***************************************************************************)
MaxTabs == 2            \* display tabs open
MaxSignals == 2         \* scans signalled
MaxToggles == 1         \* clicks on the auto-reload toggle

DisplayTabs == 1..MaxTabs

NewTabs ==
    [latestScannedDataTimestamp |-> 0, lastRevalidatedTimestamp |-> 0,
     autoReloadEnabled |-> [t \in DisplayTabs |-> TRUE],
     events |-> [t \in DisplayTabs |-> <<>>],
     revalidating |-> [t \in DisplayTabs |-> FALSE],
     revalidated |-> [t \in DisplayTabs |-> {}],
     calls |-> [t \in DisplayTabs |-> 0],
     turnedOff |-> [t \in DisplayTabs |-> FALSE],
     signals |-> 0, toggles |-> 0]

\* the storage event of a key written by writer (0: the scanner's tab) is queued for
\* every other tab
StorageEvent(tb, writer, key) ==
    [tb EXCEPT !.events = [t \in DisplayTabs |-> IF t = writer THEN @[t] ELSE Append(@[t], key)]]

\* revalidator.revalidate() followed by
\* localStorage.setItem('lastRevalidatedTimestamp', timestamp)
revalidate(tb, t, timestamp) ==
    LET called == [tb EXCEPT !.revalidating[t] = TRUE,
                             !.revalidated[t] = @ \cup {timestamp},
                             !.calls[t] = @ + 1,
                             !.lastRevalidatedTimestamp = timestamp]
    IN  IF tb.lastRevalidatedTimestamp # timestamp
        THEN StorageEvent(called, t, "lastRevalidatedTimestamp")
        ELSE called

\* A mutant of handleStorageChange: the timestamp is not compared with
\* lastRevalidatedTimestamp.
handleStorageChangeUncompared(tb, t, key) ==
    IF ~tb.autoReloadEnabled[t] THEN tb
    ELSE IF key \in {"latestScannedDataTimestamp", "latestScannedDataItem"}
            /\ tb.latestScannedDataTimestamp # 0
    THEN [tb EXCEPT !.revalidating[t] = TRUE,
                    !.revalidated[t] = @ \cup {tb.latestScannedDataTimestamp},
                    !.calls[t] = @ + 1,
                    !.lastRevalidatedTimestamp = tb.latestScannedDataTimestamp]
    ELSE tb

\* handleStorageChange(event) in tab t
handleStorageChange(tb, t, key) ==
    IF ~tb.autoReloadEnabled[t] THEN tb
    ELSE IF key \in {"latestScannedDataTimestamp", "latestScannedDataItem"}
    THEN LET newTimestamp    == tb.latestScannedDataTimestamp
             lastRevalidated == tb.lastRevalidatedTimestamp
         IN  IF newTimestamp # 0 /\ newTimestamp # lastRevalidated
             THEN revalidate(tb, t, newTimestamp)
             ELSE tb
    ELSE tb

\* the check the effect makes each time it runs ("Initial check on mount")
InitialCheck(tb, t) ==
    LET latestStoredTimestamp == tb.latestScannedDataTimestamp
    IN  IF latestStoredTimestamp # 0 /\ tb.autoReloadEnabled[t]
           /\ latestStoredTimestamp # tb.lastRevalidatedTimestamp
        THEN revalidate(tb, t, latestStoredTimestamp)
        ELSE tb

\* the scanner's fetcher effect after a successful save: Date.now() goes into
\* latestScannedDataTimestamp, the saved data into latestScannedDataItem
SignalNewScan(tb) ==
    LET currentTimestamp == tb.signals + 1
        a == [tb EXCEPT !.signals = currentTimestamp,
                        !.latestScannedDataTimestamp = currentTimestamp]
    IN  StorageEvent(StorageEvent(a, 0, "latestScannedDataTimestamp"),
                     0, "latestScannedDataItem")

TabsStep(tb) ==
    /\ tabs' = tb
    /\ UNCHANGED <<now, serverVars, hubVars, qs, page, sse, upd, rx, dbrun>>

\* a scan was saved in the scanner's tab
ScanSignalled ==
    /\ tabs.signals < MaxSignals
    /\ TabsStep(SignalNewScan(tabs))

\* tab t handles the oldest storage event queued for it
TabStorageEvent(t) ==
    /\ tabs.events[t] # <<>>
    /\ TabsStep(handleStorageChange([tabs EXCEPT !.events[t] = Tail(@)], t,
                                    Head(tabs.events[t])))

\* the revalidation of tab t completes: new loader data, the effect runs again
TabRevalidated(t) ==
    /\ tabs.revalidating[t]
    /\ TabsStep(InitialCheck([tabs EXCEPT !.revalidating[t] = FALSE], t))

\* click on the auto-reload toggle of tab t: the effect runs again
TabToggle(t) ==
    /\ tabs.toggles < MaxToggles
    /\ TabsStep(InitialCheck([tabs EXCEPT !.autoReloadEnabled[t] = ~@,
                                         !.turnedOff[t] = @ \/ tabs.autoReloadEnabled[t],
                                         !.toggles = @ + 1], t))

(***************************************************************************)
(* The connection hooks: useSSE (app/hooks/useSSE.ts, kind "sse") and the  *)
(* two versions of useWebSocket (app/hooks/useWebSocket.ts, kinds "ws1"    *)
(* and "ws2").  rx is one hook instance with its browser objects:          *)
(*   kind       which hook                                                 *)
(*   mounted    the component that uses the hook is mounted                *)
(*   status     connectionStatus / status                                  *)
(*   ref        wsRef.current / eventSourceRef.current: the index of the   *)
(*              transport in socks, 0 for null                             *)
(*   timerRef   reconnectTimeoutRef.current: a timer id, 0 for none        *)
(*   timers     the timeouts that are pending                              *)
(*   made       timeouts created so far (the next id is made + 1)          *)
(*   attempts   reconnectAttemptsRef.current                               *)
(*   socks      readyState of every WebSocket / EventSource the hook made, *)
(*              in order; its handlers stay installed.  "ABORTING": the    *)
(*              hook closed a WebSocket that was still connecting          *)
(*   failures   history: transport failures since the last open            *)
(*   waits      history: delays of the timeouts set since the last open    *)
(*   reconnects history: manual reconnect calls                            *)
(*   tornDown   history: unmounted, or disconnected by the user and not    *)
(*              reconnected since                                          *)
(***************************************************************************)
MaxTransports == 5      \* transports a hook instance creates
MaxTimers == 5          \* timeouts a hook instance sets
MaxManual == 1          \* manual reconnect calls

maxReconnectAttempts == 5

reconnectInterval == 5000   \* useSSE's default, in ms
reconnectDelay == 3000      \* both useWebSocket versions, in ms

HookKinds == {"sse", "ws1", "ws2"}

NewHook(kind) ==
    [kind |-> kind, mounted |-> FALSE, status |-> "disconnected", ref |-> 0, timerRef |-> 0,
     timers |-> {}, made |-> 0, attempts |-> 0, socks |-> <<>>, failures |-> 0,
     reconnects |-> 0, tornDown |-> FALSE, waits |-> <<>>]

NoHook == NewHook("ws2")

\* transport.close(): an EventSource is closed at once and fires nothing more; a
\* WebSocket starts closing and fires its close event later
closeTransport(r, t) ==
    IF t = 0 THEN r
    ELSE [r EXCEPT !.socks[t] =
            IF @ \in {"CLOSING", "ABORTING", "CLOSED"} THEN @
            ELSE IF r.kind = "sse" THEN "CLOSED"
            ELSE IF @ = "CONNECTING" THEN "ABORTING"
            ELSE "CLOSING"]

\* reconnectTimeoutRef.current = setTimeout(connect, delay); waits is history: the
\* delays of the timeouts set since the transport was last open
setReconnectTimeout(r) ==
    [r EXCEPT !.made = @ + 1, !.timers = @ \cup {r.made + 1}, !.timerRef = r.made + 1,
              !.waits = Append(@, IF r.kind = "sse" THEN reconnectInterval
                                  ELSE reconnectDelay)]

\* clearTimeout(reconnectTimeoutRef.current)
clearReconnectTimeout(r) == [r EXCEPT !.timers = @ \ {r.timerRef}]

\* new WebSocket(url) / new EventSource(url), kept in the ref
newTransport(r) ==
    [r EXCEPT !.socks = Append(@, "CONNECTING"), !.ref = Len(r.socks) + 1, !.status = "connecting"]

\* connect()
connect(r) ==
    IF r.kind = "sse"
    THEN newTransport([clearReconnectTimeout(closeTransport(r, r.ref)) EXCEPT !.timerRef = 0])
    ELSE IF r.ref # 0 /\ r.socks[r.ref] = "OPEN" THEN r
    ELSE newTransport(r)

\* disconnect() of useSSE and of the second useWebSocket; the cleanup of the first
\* useWebSocket's effect
disconnect(r) ==
    LET closed == [closeTransport(clearReconnectTimeout(r), r.ref) EXCEPT !.tornDown = TRUE]
    IN  IF r.kind = "sse"
        THEN [closed EXCEPT !.ref = 0, !.timerRef = 0, !.attempts = 0, !.status = "disconnected"]
        ELSE IF r.kind = "ws2"
        THEN [closed EXCEPT !.ref = 0, !.timerRef = 0, !.status = "disconnected",
                            !.attempts = maxReconnectAttempts]
        ELSE closed

\* the manual reconnect: reconnect() of useSSE, connect() of the second useWebSocket
reconnect(r) ==
    LET called == [r EXCEPT !.reconnects = @ + 1, !.tornDown = FALSE]
    IN  IF r.kind = "sse" THEN connect([called EXCEPT !.attempts = 0]) ELSE connect(called)

\* onopen
onopen(r) ==
    LET opened == [r EXCEPT !.status = "connected", !.failures = 0, !.waits = <<>>]
    IN  IF r.kind = "ws1" THEN clearReconnectTimeout(opened)
        ELSE [opened EXCEPT !.attempts = 0]

\* the retry of eventSource.onerror and of the second useWebSocket's onclose
retry(r) ==
    IF r.attempts < maxReconnectAttempts
    THEN setReconnectTimeout([r EXCEPT !.attempts = @ + 1])
    ELSE r

\* ws.onclose(event) of the two useWebSocket versions
onclose(r, code) ==
    LET closed == [r EXCEPT !.status = "disconnected",
                            !.failures = IF code = 1000 THEN @ ELSE @ + 1]
    IN  IF r.kind = "ws1"
        THEN IF code # 1000 THEN setReconnectTimeout(closed) ELSE closed
        ELSE IF code # 1000 THEN retry([closed EXCEPT !.ref = 0])
        ELSE [closed EXCEPT !.ref = 0]

\* eventSource.onerror of useSSE
onerror(r) == retry([r EXCEPT !.status = "error", !.failures = @ + 1])

\* the close codes a WebSocket in a given state can report when it goes down
CloseCodes(readyState) ==
    IF readyState \in {"OPEN", "CLOSING"} THEN {1000, 1006}
    ELSE IF readyState \in {"CONNECTING", "ABORTING"} THEN {1006}
    ELSE {}

RxStep(r) ==
    /\ Len(r.socks) =< MaxTransports
    /\ r.made =< MaxTimers
    /\ r.reconnects =< MaxManual
    /\ r.failures =< maxReconnectAttempts
    /\ rx' = r
    /\ UNCHANGED <<now, serverVars, hubVars, qs, page, sse, upd, tabs, dbrun>>

\* transport t is connected: its open event fires
TransportOpen(t) ==
    /\ t \in 1..Len(rx.socks)
    /\ rx.socks[t] = "CONNECTING"
    /\ RxStep(onopen([rx EXCEPT !.socks[t] = "OPEN"]))

\* WebSocket t goes down: its close event fires with a code
SocketClose(t, code) ==
    /\ rx.kind # "sse"
    /\ t \in 1..Len(rx.socks)
    /\ code \in CloseCodes(rx.socks[t])
    /\ RxStep(onclose([rx EXCEPT !.socks[t] = "CLOSED"], code))

\* WebSocket t fails: its error event fires (the close event follows)
SocketError(t) ==
    /\ rx.kind # "sse"
    /\ t \in 1..Len(rx.socks)
    /\ rx.socks[t] \in {"CONNECTING", "OPEN"}
    /\ RxStep([rx EXCEPT !.status = "error"])

\* EventSource t fails: its error event fires; the browser retries by itself
\* (CONNECTING) or gives up (CLOSED)
EventSourceError(t, readyState) ==
    /\ rx.kind = "sse"
    /\ t \in 1..Len(rx.socks)
    /\ rx.socks[t] \in {"CONNECTING", "OPEN"}
    /\ readyState \in {"CONNECTING", "CLOSED"}
    /\ RxStep(onerror([rx EXCEPT !.socks[t] = readyState]))

\* a pending reconnect timeout fires
ReconnectTimeout(id) ==
    /\ id \in rx.timers
    /\ RxStep(connect([rx EXCEPT !.timers = @ \ {id}]))

\* the user of the hook calls its manual reconnect
ManualReconnect ==
    /\ rx.mounted
    /\ rx.kind # "ws1"
    /\ RxStep(reconnect(rx))

\* the user of the hook calls disconnect()
ManualDisconnect ==
    /\ rx.mounted
    /\ rx.kind # "ws1"
    /\ RxStep(disconnect(rx))

\* the component unmounts: the effect cleanups run
HookUnmount ==
    /\ rx.mounted
    /\ RxStep([disconnect(rx) EXCEPT !.mounted = FALSE])


(***************************************************************************)
(* Initial states and specifications.                                      *)
(***************************************************************************)
\* no request handled yet
InitRequests ==
    /\ now = 0
    /\ req = NoForm
    /\ resp = NoResponse
    /\ trace = [at |-> Epoch, connected |-> FALSE, released |-> FALSE, inserted |-> FALSE]
    /\ upd = NoUpdate

\* every socket connected to the hub (registered and welcomed)
InitHubOpen ==
    /\ ready = [ws \in Sockets |-> "OPEN"]
    /\ conns = Sockets
    /\ inbox = [ws \in Sockets |-> <<Message("HEARTBEAT", <<>>)>>]
    /\ hub = LoadedManager

\* Before the first request: an empty table, and every socket connected to the hub.
InitServer ==
    /\ store = <<>>
    /\ serial = 0
    /\ InitRequests
    /\ InitHubOpen

Init ==
    /\ InitServer
    /\ qs = NewScanner(FALSE)
    /\ page = NewPage
    /\ sse = NoStream
    /\ rx = NoHook
    /\ tabs = NewTabs
    /\ dbrun = NoRun

NextAction ==
    \/ \E form \in Forms, db \in DbOutcomes : PostScan(form, db)
    \/ Tick

SpecAction == Init /\ [][NextAction]_vars

InitScanner ==
    /\ InitServer
    /\ \E autoSave, supported \in BOOLEAN :
           qs = [NewScanner(autoSave) EXCEPT !.supported = supported]
    /\ page = NewPage
    /\ sse = NoStream
    /\ rx = NoHook
    /\ tabs = NewTabs
    /\ dbrun = NoRun

NextScanner ==
    \/ StartClick
    \/ StopClick
    \/ Unmount
    \/ \E s \in 1..MaxSessions : GumResolve(s)
    \/ \E s \in 1..MaxSessions, err \in GumErrors : GumReject(s, err)
    \/ VideoLoadedMetadata
    \/ VideoCanPlay
    \/ VideoError
    \/ PlayResolve
    \/ PlayReject
    \/ \E f \in 1..MaxFrames, code \in DecodeResults : Frame(f, code)
    \/ SaveClick
    \/ \E db \in DbOutcomes : ServerScan(db)
    \/ FetcherIdle
    \/ Tick

SpecScanner == InitScanner /\ [][NextScanner]_vars

NextDisplay ==
    \/ \E message \in WsMessages : PageMessage(message)
    \/ \E i \in 1..MaxJobs : PageRendered(i)
    \/ \E i \in 1..MaxJobs : PageRenderFailed(i)
    \/ Tick

SpecDisplay == Init /\ [][NextDisplay]_vars

\* the table holds the rows of earlier scans when the stream's request arrives
StartRow(id) == [id |-> id, data |-> <<"4", "2">>, scanned_at |-> Epoch]

InitEvents ==
    /\ \E k \in {0, MaxStartRows} :
          /\ store = [i \in 1..k |-> StartRow(i)]
          /\ serial = k
    /\ InitRequests
    /\ InitHubOpen
    /\ qs = NewScanner(FALSE)
    /\ page = NewPage
    /\ sse = NoStream
    /\ rx = NoHook
    /\ tabs = NewTabs
    /\ dbrun = NoRun

NextEvents ==
    \/ \E lastId \in LastIdValues : SseOpen(lastId)
    \/ SsePollTick
    \/ \E i \in 1..MaxPolls, db \in DbOutcomes : SsePollQuery(i, db)
    \/ \E i \in 1..MaxPolls : SsePollResult(i)
    \/ SseHeartbeat
    \/ SseAbort
    \/ \E form \in FreshForms : InsertDuringStream(form)

SpecEvents == InitEvents /\ [][NextEvents]_vars

\* the two queries for what is newer than an id, over a growing table: the query of
\* a stream's poll (up to the database's answer) and the /api/check-updates loader
NextSince ==
    \/ \E lastId \in LastIdValues : SseOpen(lastId)
    \/ SsePollTick
    \/ \E i \in 1..MaxPolls : SsePollQuery(i, "ok")
    \/ \E form \in FreshForms : InsertDuringStream(form)
    \/ \E param \in LastKnownIdValues, db \in DbOutcomes : CheckUpdates(param, db)

SpecSince == InitEvents /\ [][NextSince]_vars

\* the module is loaded: the server listens, the heartbeat timer is set, no socket has
\* connected
InitHub ==
    /\ store = <<>>
    /\ serial = 0
    /\ InitRequests
    /\ ready = [ws \in Sockets |-> "NEW"]
    /\ conns = {}
    /\ inbox = [ws \in Sockets |-> <<>>]
    /\ hub = LoadedManager
    /\ qs = NewScanner(FALSE)
    /\ page = NewPage
    /\ sse = NoStream
    /\ rx = NoHook
    /\ tabs = NewTabs
    /\ dbrun = NoRun

NextHub ==
    \/ \E ws \in Sockets : WsConnection(ws)
    \/ \E ws \in Sockets, frame \in ClientFrames, data \in ClientData :
          WsMessage(ws, frame, data)
    \/ \E ws \in Sockets : WsCloseFrame(ws)
    \/ HubHeartbeat
    \/ \E ws \in Sockets : WsError(ws)
    \/ \E ws \in Sockets : WsClose(ws)
    \/ HubInitialize
    \/ HubClose
    \/ \E form \in FreshForms : PostScan(form, "ok")

SpecHub == InitHub /\ [][NextHub]_vars

\* the heartbeat timer keeps firing while it is set
SpecHubLive == SpecHub /\ WF_vars(HubHeartbeat)

\* the component has mounted: the effect has called connect()
InitReceiver ==
    /\ InitServer
    /\ qs = NewScanner(FALSE)
    /\ page = NewPage
    /\ sse = NoStream
    /\ \E kind \in HookKinds : rx = connect([NewHook(kind) EXCEPT !.mounted = TRUE])
    /\ tabs = NewTabs
    /\ dbrun = NoRun

NextReceiver ==
    \/ \E t \in 1..MaxTransports : TransportOpen(t)
    \/ \E t \in 1..MaxTransports, code \in {1000, 1006} : SocketClose(t, code)
    \/ \E t \in 1..MaxTransports : SocketError(t)
    \/ \E t \in 1..MaxTransports, readyState \in {"CONNECTING", "CLOSED"} :
          EventSourceError(t, readyState)
    \/ \E id \in 1..MaxTimers : ReconnectTimeout(id)
    \/ ManualReconnect
    \/ ManualDisconnect
    \/ HookUnmount

SpecReceiver == InitReceiver /\ [][NextReceiver]_vars

(***************************************************************************)
(* Claims about the /scan action, checked under SpecAction.                *)
(***************************************************************************)
\* the scanTimestamp the last request carried, as the action parses it
ReqScanTimestamp == ParseInt(req.scanTimestamp.text)

\* the last request got as far as the freshness check
ReachedFreshnessCheck == resp.status # 0 /\ resp.error \notin {"empty_data", "bad_timestamp"}

\* now - scanTimestamp <= 5 seconds, at millisecond resolution
AgeWithinThresholdMs == ~Gt(MinusMs(trace.at, FreshSeconds * 1000), ReqScanTimestamp)

\* a step in which the action handles a request
ActionStep == <<req, resp, trace>>' # <<req, resp, trace>>

\* C2: the freshness check accepts a scan if and only if now - scanTimestamp <= 5 s,
\* for all numeric values of now and scanTimestamp at millisecond resolution.
C2_FreshnessIffWithinFiveSeconds ==
    (ReachedFreshnessCheck /\ ~ReqScanTimestamp.nan)
        => ((resp.error # "stale") <=> AgeWithinThresholdMs)

\* C3: a record is inserted only when scanTimestamp parses to a number and the
\* computed age is at most 5 s; a missing, empty or non-numeric scanTimestamp gets an
\* error and no insert.
C3_InsertOnlyAfterFreshnessCheck ==
    /\ trace.inserted =>
          /\ ~ReqScanTimestamp.nan
          /\ ~Gt(FloorDiffSeconds(trace.at, ReqScanTimestamp), Small(FreshSeconds))
    /\ (resp.status # 0 /\ resp.error # "empty_data" /\ ReqScanTimestamp.nan) =>
          /\ ~resp.success
          /\ ~trace.inserted

C5_OnlyFreshlyGeneratedCodesStored ==
    LET qrTimestamp == extractTimestampFromQRCode(req.scannedData.text)
    IN  (trace.inserted /\ qrTimestamp.some /\ ~ReqScanTimestamp.nan)
            => ~Gt(MinusMs(ReqScanTimestamp, FreshSeconds * 1000), qrTimestamp.v)

\* C7: after every successful insert every subscriber whose socket is open at that
\* moment receives a NEW_SCAN message carrying the record's payload.
C7_InsertNotifiesOpenSubscribers ==
    [][Len(store') > Len(store) =>
          \A ws \in conns :
              ready[ws] = "OPEN" =>
                  /\ Len(inbox'[ws]) > Len(inbox[ws])
                  /\ inbox'[ws][Len(inbox'[ws])].type = "NEW_SCAN"
                  /\ inbox'[ws][Len(inbox'[ws])].data = store'[Len(store')].data]_vars

(***************************************************************************)
(* Claims about the scanner, checked under SpecScanner.                    *)
(***************************************************************************)
\* C1: getUserMedia is called at most once per startScan, and every MediaStream it
\* returned has had its tracks stopped before the getUserMedia call of the next
\* startScan succeeds: no two streams are ever live together.
C1_CameraReleasedBeforeNextStart ==
    /\ \A i, j \in 1..Len(qs.calls) : qs.calls[i] = qs.calls[j] => i = j
    /\ \A s, t \in qs.live : s = t

\* C6: a non-empty decoded code that the /scan action handles within 5 s of its
\* decoding is accepted: the row is inserted and the record (id, payload) is what the
\* scanner's fetcher gets back.
C6_DecodedScanWithinThresholdIsStored ==
    (/\ qs.fetcher.state = "loading"
     /\ Trim(qs.fetcher.form.scannedData.text) # <<>>
     /\ ~Gt(MinusMs(trace.at, FreshSeconds * 1000), qs.fetcher.capturedAt))
        => /\ qs.fetcher.data.v.success
           /\ trace.inserted
           /\ \E i \in 1..Len(store) :
                 /\ store[i].id = qs.fetcher.data.v.id
                 /\ store[i].data = qs.fetcher.form.scannedData.text
                 /\ qs.fetcher.data.v.savedData = store[i].data

\* C8: of the submissions of one decoded scan only the first may be automatic; after
\* any save, failed or rejected ones included, only the user submits it again.
C8_NoAutomaticResubmission ==
    \A i \in 2..Len(qs.fetcher.submits) : qs.fetcher.submits[i] = "user"

(***************************************************************************)
(* Claims about the generate page, checked under SpecDisplay.              *)
(***************************************************************************)
\* C9: what the page shows (text, image, timestamp) changes only for a delivered
\* record whose id is greater than the id of the record shown: a record delivered
\* twice changes nothing the second time and an older record never replaces a newer.
C9_ReceiverIgnoresOldRecords ==
    [][page'.currentDisplayData # page.currentDisplayData
          => page'.shownId > page.shownId]_vars

(***************************************************************************)
(* Claims about the push stream, checked under SpecEvents.                 *)
(***************************************************************************)
\* C10: the ids of the new_scan messages of a stream are strictly increasing: a record
\* is emitted only if newer than all the stream delivered, and never again.
C10_StreamEmitsOnlyNewerRecords ==
    \A i, j \in 1..Len(sse.out) :
        (i < j /\ sse.out[i].type = "new_scan" /\ sse.out[j].type = "new_scan")
            => sse.out[j].data.id > sse.out[i].data.id

(***************************************************************************)
(* Claims about the queries for newer records, checked under SpecSince.    *)
(***************************************************************************)
\* the rows of the table with an id above n
RowsAbove(n) == {i \in 1..Len(store) : Gt(Small(store[i].id), n)}

\* rows is the answer "the highest-id record above n, or nothing"
IsHighestAbove(rows, n) ==
    IF RowsAbove(n) = {} THEN rows = <<>>
    ELSE /\ Len(rows) = 1
         /\ \E i \in RowsAbove(n) : rows[1] = store[i]
         /\ Gt(Small(rows[1].id), n)
         /\ \A i \in 1..Len(store) : store[i].id =< rows[1].id

\* the stream's request supplied an id
LastIdSupplied == sse.lastId.present /\ sse.lastId.text # <<>>

\* a step in which the database evaluates the query of poll i
QueryStep(i) ==
    /\ i \in 1..Len(sse.polls)
    /\ sse.polls[i].stage = "connect"
    /\ Len(sse'.polls) = Len(sse.polls)
    /\ sse'.polls[i].stage = "result"

NewScans(n) == {k \in 1..n : sse.out[k].type = "new_scan"}

\* a step in which client.query() of poll i resolves
ResultStep(i) ==
    /\ i \in 1..Len(sse.polls)
    /\ sse.polls[i].stage = "result"
    /\ sse'.polls = RemoveAt(sse.polls, i)

C13_EmittedIdsNeverDecrease ==
    \A i, j \in NewScans(Len(sse.out)) : i < j => sse.out[i].data.id =< sse.out[j].data.id

\* C15: every record inserted while a stream stays open is emitted on it: no record is
\* skipped.  When a new_scan is emitted, every record inserted since the stream
\* opened with an id up to the emitted one has been emitted (two records inserted
\* between two consecutive poll ticks are both delivered).
C15_NoInsertedRecordSkipped ==
    [][(sse'.out # sse.out /\ sse'.out[Len(sse'.out)].type = "new_scan") =>
          \A r \in 1..Len(store) :
              (store[r].id > sse.sinceId /\ store[r].id =< sse'.out[Len(sse'.out)].data.id)
                  => \E k \in 1..Len(sse'.out) :
                        /\ sse'.out[k].type = "new_scan"
                        /\ sse'.out[k].data.id = store[r].id]_vars

\* C19: when the subscriber goes away the stream's abort cancels the poll and
\* heartbeat timers and closes the stream; nothing is emitted afterwards: a poll in
\* flight at the abort emits nothing when it completes, with rows or with an error,
\* and no timer starts anything again.
C19_NothingEmittedAfterAbort ==
    [][/\ (~sse.closed /\ sse'.closed) =>
             /\ ~sse'.isActive
             /\ ~sse'.pollInterval
             /\ ~sse'.heartbeatInterval
             /\ sse'.out = sse.out
       /\ sse.closed =>
             /\ sse'.closed
             /\ ~sse'.pollInterval
             /\ ~sse'.heartbeatInterval
             /\ sse'.out = sse.out
             /\ Len(sse'.polls) =< Len(sse.polls)]_vars

\* C19 witness: after the abort two polls that were in flight have completed, their
\* sends found the stream inactive, and none is left.
C19_Witness ==
    /\ sse.closed
    /\ sse.dropped = 2
    /\ sse.polls = <<>>
    /\ Len(store) > sse.sinceId

(***************************************************************************)
(* Claims about the hub, checked under SpecHub and SpecHubLive.            *)
(***************************************************************************)
\* C18: closing the hub closes every connection of the registry, empties the registry
\* and stops the heartbeat timer, for any number of open connections, zero included;
\* after the close no heartbeat or broadcast reaches any client and another close
\* changes nothing.
C18_HubCloseSilencesEveryClient ==
    [][/\ (hub.wss /\ ~hub'.wss) =>
             /\ conns' = {}
             /\ \A ws \in conns : ready'[ws] \in {"CLOSING", "CLOSED"}
             /\ hub'.heartbeatInterval = "cleared"
             /\ inbox' = inbox
       /\ ~hub.wss =>
             /\ ~hub'.wss => hub' = hub
             /\ conns' = {}
             /\ inbox' = inbox
             /\ \A ws \in Sockets : ready'[ws] = "OPEN" => ready[ws] = "OPEN"]_vars

\* C18 witness: the hub was closed while every socket was open and welcomed; the
\* sockets are closing, the registry is empty and the timer cleared.
C18_Witness ==
    /\ ~hub.wss
    /\ hub.heartbeatInterval = "cleared"
    /\ conns = {}
    /\ \A ws \in Sockets : ready[ws] = "CLOSING" /\ inbox[ws] # <<>>

\* the highest id among the records a socket was sent (0 if none)
LastSeenId(ws) ==
    LET seen == {r \in 1..Len(store) :
                    \E k \in 1..Len(inbox[ws]) :
                        inbox[ws][k].type = "NEW_SCAN" /\ inbox[ws][k].data = store[r].data}
    IN  IF seen = {} THEN 0 ELSE store[CHOOSE r \in seen : \A q \in seen : q =< r].id

\* the subscriber whose socket old dropped is connected again on socket new
Reconnected(old, new) ==
    /\ old # new
    /\ ready[old] = "CLOSED"
    /\ ready[new] = "OPEN"
    /\ new \in conns

\* socket new was sent every record above the last id socket old had seen
CaughtUp(old, new) ==
    \A r \in 1..Len(store) :
        store[r].id > LastSeenId(old) =>
            \E k \in 1..Len(inbox[new]) :
                inbox[new][k].type = "NEW_SCAN" /\ inbox[new][k].data = store[r].data

C16_NoAutomaticAttemptAfterFiveFailures ==
    rx.failures >= maxReconnectAttempts
        => /\ rx.timers = {}
           /\ rx.status \in {"disconnected", "error"}

\* C17: a manual reconnect resets the attempt counter to zero, also when it follows a
\* manual disconnect, so that the hook again has all its automatic retries.
C17_ManualReconnectResetsAttempts ==
    [][rx'.reconnects > rx.reconnects => rx'.attempts = 0]_vars

\* C20: once the hook is torn down (unmount or disconnect) no reconnect timeout is
\* pending and it opens no new connection, whatever close code or error the closing
\* transport reports afterwards and whether it was connecting or open at teardown.
C20_TornDownHookStaysQuiet ==
    [][rx'.tornDown =>
          /\ rx'.timers = {}
          /\ rx.tornDown => Len(rx'.socks) = Len(rx.socks)]_vars

(***************************************************************************)
(* Further claims about the scanner, checked under SpecScanner.            *)
(***************************************************************************)
\* the values of isScanning that a stopScan callable now may have captured: that of
\* the current render, or TRUE in a callback set up while scanning
StopClosures == {TRUE, qs.isScanning}

\* C21: stopScan may be invoked in any state (idle, acquiring, streaming, after a
\* decode) and is idempotent: a second invocation changes nothing, and after the
\* first the loop flag is false, no animation frame is pending, streamRef is null
\* with the stream it held stopped, and isScanning is false; also when a user stop
\* and a decode success both invoke it.
C21_StopScanIdempotent ==
    \A c \in StopClosures :
        LET once == stopScan(qs, c)
        IN  /\ \A d \in {TRUE, once.isScanning} : stopScan(once, d) = once
            /\ ~once.isLoopActive
            /\ once.frames = {}
            /\ once.animationFrameId = 0
            /\ once.streamRef = 0
            /\ once.live = qs.live \ {qs.streamRef}
            /\ qs.mounted => ~once.isScanning /\ once.srcObject = 0

\* C21 witness: in a second session the loop is running on a live stream with a frame
\* pending: stopScan has everything to release.
C21_Witness ==
    /\ qs.isScanning
    /\ qs.isLoopActive
    /\ qs.frames # {}
    /\ qs.streamRef \in qs.live
    /\ qs.sessions = 2
    /\ stopScan(qs, TRUE) # qs

\* C22: a tick that decodes a non-empty string deactivates the loop and schedules no
\* further frame, and no later tick of that scan session decodes a frame: one scan
\* session (one startScan) yields at most one scanned result.
C22_OneResultPerSession ==
    \A i, j \in 1..Len(qs.decoded) : qs.decoded[i] = qs.decoded[j] => i = j

\* C23: after stopScan and until the next startScan (the component is not scanning
\* before and after the step) no callback of the scan loop does work: no frame is
\* scheduled and no frame is decoded.
C23_StoppedScannerDoesNoWork ==
    [][(~qs.isScanning /\ ~qs'.isScanning)
          => (qs'.frames \subseteq qs.frames /\ qs'.decoded = qs.decoded)]_vars

\* C30: when camera acquisition fails during a scan, the error the component ends with
\* tells the causes apart (permission denied, device not found, device busy, and the
\* unsupported browser), no camera stream is held, and the component is not scanning.
C30_AcquisitionFailureIsDistinguished ==
    (qs.mounted /\ qs.isScanning) =>
        \A s \in qs.gum : \A c1, c2 \in GumErrors :
            LET pending == [qs EXCEPT !.gum = @ \ {s}]
                a == CatchGetUserMedia(pending, c1)
                b == CatchGetUserMedia(pending, c2)
                u == EffectScanning([pending EXCEPT !.supported = FALSE])
            IN  /\ c1 # c2 => a.error # b.error
                /\ a.error # u.error
                /\ a.error # "" /\ u.error # ""
                /\ ~a.isScanning /\ a.streamRef = 0
                /\ ~u.isScanning /\ u.streamRef = 0

(* Further claims about the /scan action, checked under SpecAction. *)
\* s is empty or holds white space only
OnlySpaces(s) == \A k \in 1..Len(s) : IsSpace(s[k])

\* the scannedData of a request is absent, not a string, empty or blank
BlankPayload(form) == ~form.scannedData.present \/ OnlySpaces(form.scannedData.text)

\* C28: the payload of every stored record is neither empty nor whitespace-only, and
\* the /scan action answers an absent, non-string, empty or whitespace-only scannedData
\* with an error (400) and inserts nothing.
C28_StoredPayloadNeverBlank ==
    /\ [](\A i \in 1..Len(store) : ~OnlySpaces(store[i].data))
    /\ [][(ActionStep /\ BlankPayload(req')) =>
             /\ resp'.status = 400
             /\ ~resp'.success
             /\ resp'.error = "empty_data"
             /\ ~trace'.connected
             /\ ~trace'.inserted
             /\ store' = store
             /\ serial' = serial]_vars

\* C28 witness: with a record stored, a whitespace-only scannedData with a fresh
\* timestamp was posted and rejected.
C28_Witness ==
    /\ Len(store) = 1
    /\ req.scannedData = Str(<<" ", " ">>)
    /\ req.scanTimestamp = Str(ToDigits(MinusMs(Epoch, 2500)))
    /\ resp.error = "empty_data"

\* the capture time of the last request lies after the server clock of its run
CaptureInFuture == ~ReqScanTimestamp.nan /\ Gt(ReqScanTimestamp, trace.at)

\* C29: when the submitted capture time lies in the future of the server clock, the
\* /scan action does not reject the scan as stale, and the age it reports is zero.
C29_FutureCaptureReportsZeroAge ==
    (ReachedFreshnessCheck /\ CaptureInFuture) =>
        /\ resp.error # "stale"
        /\ resp.success => resp.timeDifference = Some(Small(0))

(* Further claims about the connection hooks, checked under SpecReceiver. *)
\* C24: the delay before an automatic reconnection attempt grows with the number of
\* consecutive failures: the wait before attempt n+1 is strictly longer than the wait
\* before attempt n.
C24_ReconnectDelayGrows ==
    \A n \in 1..(Len(rx.waits) - 1) : rx.waits[n + 1] > rx.waits[n]

InitTabs ==
    /\ InitServer
    /\ qs = NewScanner(FALSE)
    /\ page = NewPage
    /\ sse = NoStream
    /\ rx = NoHook
    /\ tabs = NewTabs
    /\ dbrun = NoRun

NextTabs ==
    \/ ScanSignalled
    \/ \E t \in DisplayTabs : TabStorageEvent(t)
    \/ \E t \in DisplayTabs : TabRevalidated(t)
    \/ \E t \in DisplayTabs : TabToggle(t)

SpecTabs == InitTabs /\ [][NextTabs]_vars

\* Every handler that takes a client from the pool: one /events stream with its polls,
\* then the /scan action, check-updates, the generate loader and action and test-db.
\* The request handlers share nothing with a stream's polls but the table; they are
\* served once the stream is done with its polls (StreamDone), which keeps the
\* states of the two from multiplying.
StreamDone == sse.closed /\ sse.polls = <<>>

NextPool ==
    \/ SseOpen(Absent)
    \/ SsePollTick
    \/ \E i \in 1..MaxPolls, db \in DbOutcomes : SsePollQuery(i, db)
    \/ \E i \in 1..MaxPolls : SsePollResult(i)
    \/ SseAbort
    \/ StreamDone /\ \E form \in FreshForms, db \in DbOutcomes : PostScan(form, db)
    \/ StreamDone /\ \E db \in DbOutcomes : CheckUpdates(Absent, db)
    \/ StreamDone /\ \E skip \in BOOLEAN, db \in DbOutcomes : GenerateLoader(skip, db)
    \/ StreamDone /\ \E intent \in GenerateIntents, db \in DbOutcomes :
                         GenerateAction(intent, db)
    \/ StreamDone /\ \E db \in DbOutcomes : TestDb(db)

SpecPool == InitEvents /\ [][NextPool]_vars

(* Further claims about the hub, checked under SpecHub. *)
\* the sockets that have connected and have emitted neither close nor error, while the
\* hub is up
LiveSockets == {ws \in Sockets : ready[ws] \in {"OPEN", "CLOSE_RECEIVED"}}

\* C25: the hub's registry holds exactly the sockets that have connected and have not
\* yet emitted close or error (none once the hub is closed); it changes only by a
\* connection event (the socket is added), a close or error event of a socket (that
\* socket is removed) and hub close (cleared); a broadcast, which only fills inboxes,
\* never changes it.
C25_RegistryIsTheLiveSockets ==
    /\ [](conns = LiveSockets /\ (~hub.wss => conns = {}))
    /\ [][conns' # conns =>
             \/ \E ws \in Sockets : /\ ready[ws] = "NEW" /\ ready'[ws] = "OPEN"
                                    /\ conns' = conns \cup {ws}
             \/ \E ws \in Sockets : /\ ready[ws] \in {"OPEN", "CLOSE_RECEIVED"}
                                    /\ ready'[ws] \in {"CLOSING", "CLOSED"}
                                    /\ hub' = hub
                                    /\ conns' = conns \ {ws}
             \/ hub.wss /\ ~hub'.wss /\ conns' = {}]_vars
    /\ [][inbox' # inbox /\ ready' = ready => conns' = conns]_vars

\* C25 witness: with the hub up, one socket has errored and left the registry, and the
\* other, still registered, has received a broadcast after its welcome.
C25_Witness ==
    /\ hub.wss
    /\ conns = {1}
    /\ ready[2] = "CLOSING"
    /\ Len(inbox[1]) = 2

\* the envelope types of the claim, in the hub's spelling
EnvelopeTypes == {"CONNECTED", "NEW_SCAN", "HEARTBEAT", "ERROR"}

\* C26: every message the hub emits to a socket has one of the types connected,
\* new-scan, heartbeat, error, and the first message a new subscriber receives is the
\* connected acknowledgement.
C26_HubEmitsOnlyEnvelopeTypes ==
    \A ws \in Sockets :
        /\ \A k \in 1..Len(inbox[ws]) : inbox[ws][k].type \in EnvelopeTypes
        /\ inbox[ws] # <<>> => inbox[ws][1].type = "CONNECTED"

(* Claims about the display tabs, checked under SpecTabs. *)
\* C27: every display tab that has auto-reload enabled revalidates after a new scan is
\* signalled through the storage keys: once it has handled its storage events it has
\* revalidated for the latest signal, however many tabs are open and in whatever
\* order their handlers ran.
C27_EveryTabRevalidates ==
    \A t \in DisplayTabs :
        (/\ ~tabs.turnedOff[t]
         /\ tabs.events[t] = <<>>
         /\ tabs.latestScannedDataTimestamp # 0)
            => tabs.latestScannedDataTimestamp \in tabs.revalidated[t]

\* C31: a failed insert is reported as a distinguishable outcome: when the last request
\* failed at the database, the response for a connection that cannot be obtained
\* differs from the response for a failing query, and neither run stores a record.
C31_FailedInsertIsDistinguished ==
    resp.status = 500 =>
        LET unavailable == ScanAction(req, "connect_error")
            writeFailed == ScanAction(req, "query_error")
        IN  /\ ~trace.inserted
            /\ unavailable.rows = <<>> /\ writeFailed.rows = <<>>
            /\ (unavailable.resp.status = 500 /\ writeFailed.resp.status = 500)
                   => unavailable.resp.error # writeFailed.resp.error

(* Claims about the pool, checked under SpecPool. *)
\* the polls of the stream that hold a client: their query is under way
HoldingPolls == {i \in 1..Len(sse.polls) : sse.polls[i].stage = "result"}

\* C32: in every handler that uses the store a client obtained from the pool is
\* released exactly once on every path, and nothing is released when the connect
\* failed: the finished runs of the /scan action, of check-updates, of the generate
\* loader and action and of test-db released once if and only if they connected; the
\* clients a stream has checked out are those of its polls whose query is under way,
\* also after the stream was aborted, and none once every poll has completed.
C32_EveryClientReleasedOnce ==
    /\ trace.released = trace.connected
    /\ upd.released = (IF upd.connected THEN 1 ELSE 0)
    /\ dbrun.released = (IF dbrun.connected THEN 1 ELSE 0)
    /\ sse.clients = Cardinality(HoldingPolls)
    /\ sse.polls = <<>> => sse.clients = 0

\* C32 witness: the stream was aborted while a query was under way and that poll has
\* completed since; a /scan run failed at its query, a check-updates run failed at its
\* connect and a test-db run failed at its query.
C32_Witness ==
    /\ sse.closed /\ sse.dropped > 0 /\ sse.polls = <<>>
    /\ resp.status = 500 /\ trace.connected
    /\ upd.status = 500 /\ ~upd.connected
    /\ dbrun.handler = "test-db" /\ dbrun.status = 500 /\ dbrun.connected

(* Further claims about the connection hooks, checked under SpecReceiver. *)
\* the transports of the hook that are connecting or open
LiveTransports == {t \in 1..Len(rx.socks) : rx.socks[t] \in {"CONNECTING", "OPEN"}}

\* C33: the second useWebSocket holds at most one WebSocket that is connecting or open,
\* and the close handler of a superseded socket neither clears the reference to a newer
\* socket nor leaves a reconnect timer next to one: when a socket is connecting or
\* open, it is the one in wsRef and no reconnect timer is pending.
C33_OneSocketPerHook ==
    rx.kind = "ws2" =>
        /\ Cardinality(LiveTransports) =< 1
        /\ \A t \in LiveTransports : rx.ref = t /\ rx.timers = {}

\* C34: useSSE has at most one reconnect timer pending and at most one EventSource
\* that is not closed, also when the error handler of one EventSource fires more than
\* once before the scheduled reconnect runs.
C34_OneTimerOneEventSource ==
    rx.kind = "sse" =>
        /\ Cardinality(rx.timers) =< 1
        /\ Cardinality(LiveTransports) =< 1

\* C35: in useSSE and in the second useWebSocket the attempt counter stays between 0
\* and maxReconnectAttempts, rises only in a step that schedules an automatic
\* reconnect, and by one, and is 0 after every successful open.
C35_AttemptCounterCountsScheduledRetries ==
    /\ [](rx.kind # "ws1" => rx.attempts \in 0..maxReconnectAttempts)
    /\ [][(rx.kind # "ws1" /\ rx'.attempts > rx.attempts)
             => (rx'.attempts = rx.attempts + 1 /\ rx'.made = rx.made + 1)]_vars
    /\ [][(rx.kind # "ws1"
             /\ \E t \in 1..Len(rx.socks) : rx.socks[t] # "OPEN" /\ rx'.socks[t] = "OPEN")
             => rx'.attempts = 0]_vars

(* Further claims about the scanner, checked under SpecScanner. *)
\* C36: at most one animation frame is pending at any time, and a frame is pending
\* only while the loop flag is true.
C36_OneFrameWhileLoopActive ==
    /\ Cardinality(qs.frames) =< 1
    /\ qs.frames # {} => qs.isLoopActive

(***************************************************************************)
(* A further claim about /api/check-updates, checked under SpecSince.      *)
(***************************************************************************)
\* the highest id in the table, 0 for an empty table
HighestId ==
    IF store = <<>> THEN 0
    ELSE CHOOSE m \in {store[i].id : i \in 1..Len(store)} :
             \A i \in 1..Len(store) : store[i].id =< m

RECURSIVE DecimalValue(_)
DecimalValue(text) ==
    IF text = <<>> THEN 0
    ELSE 10 * DecimalValue(SubSeq(text, 1, Len(text) - 1)) + DigitValue(text[Len(text)])

\* the number a lastKnownId parameter stands for: its decimal value, 0 when it is
\* missing, empty or not a number
KnownIdMeant(param) ==
    IF param.present /\ param.text # <<>> /\ \A i \in 1..Len(param.text) : IsDigit(param.text[i])
    THEN DecimalValue(param.text)
    ELSE 0

\* C37: check-updates reports hasUpdate exactly when the table is non-empty and its
\* highest id is above lastKnownId, a missing or unparsable lastKnownId counting as 0;
\* latestScanId is the highest id, 0 for an empty table; on a database error the
\* answer is status 500 with hasUpdate false and latestScanId 0.
C37_CheckUpdatesReportsHighestAboveKnown ==
    [][\A param \in LastKnownIdValues, db \in DbOutcomes :
          CheckUpdates(param, db) =>
              IF db = "ok"
              THEN /\ upd'.status = 200
                   /\ upd'.hasUpdate <=> (store # <<>> /\ HighestId > KnownIdMeant(param))
                   /\ upd'.latestScanId = HighestId
              ELSE /\ upd'.status = 500
                   /\ ~upd'.hasUpdate
                   /\ upd'.latestScanId = 0]_vars

\* C37 witness: a request with an unparsable lastKnownId was answered with an update
\* from a table of several rows.
C37_Witness ==
    /\ upd.param = Str(<<"a">>)
    /\ upd.status = 200
    /\ upd.hasUpdate
    /\ Len(store) >= 2
    /\ upd.latestScanId = HighestId

(***************************************************************************)
(* A further claim about the cross-tab signal, checked under SpecTabs.     *)
(***************************************************************************)
ScanKeys == {"latestScannedDataTimestamp", "latestScannedDataItem"}

\* display t is the only display that took part: auto-reload was never turned off
\* in it and no other display called revalidate()
SoleDisplay(t) ==
    /\ ~tabs.turnedOff[t]
    /\ \A u \in DisplayTabs \ {t} : tabs.calls[u] = 0

\* C38: within one display a saved scan leads to exactly one revalidation although
\* two storage events signal it: the event that finds the timestamp equal to the
\* last-revalidated marker (the second event, a repeated event) causes none, and a
\* storage event handled with auto-reload off changes nothing but the event queue.
C38_OneRevalidationPerSave ==
    /\ [](\A t \in DisplayTabs : tabs.calls[t] = Cardinality(tabs.revalidated[t]))
    /\ [](\A t \in DisplayTabs :
            (tabs.signals > 0 /\ tabs.events[t] = <<>> /\ SoleDisplay(t))
                => /\ tabs.latestScannedDataTimestamp \in tabs.revalidated[t]
                   /\ tabs.calls[t] =< tabs.signals
                   /\ tabs.signals = 1 => tabs.calls[t] = 1)
    /\ [][\A t \in DisplayTabs :
             TabStorageEvent(t) =>
                 /\ tabs'.calls[t] - tabs.calls[t] =
                        (IF /\ tabs.autoReloadEnabled[t]
                            /\ Head(tabs.events[t]) \in ScanKeys
                            /\ tabs.latestScannedDataTimestamp # 0
                            /\ tabs.latestScannedDataTimestamp # tabs.lastRevalidatedTimestamp
                         THEN 1 ELSE 0)
                 /\ ~tabs.autoReloadEnabled[t]
                        => tabs' = [tabs EXCEPT !.events[t] = Tail(@)]]_vars

\* C38 witness: one scan was signalled; a display handled both of its storage events
\* and revalidated once, and another display, with auto-reload off, handled its
\* events without revalidating.
C38_Witness ==
    \E t, u \in DisplayTabs :
        /\ tabs.signals = 1
        /\ tabs.events[t] = <<>> /\ tabs.calls[t] = 1 /\ ~tabs.revalidating[t]
        /\ tabs.lastRevalidatedTimestamp = 1
        /\ ~tabs.autoReloadEnabled[u] /\ tabs.events[u] = <<>> /\ tabs.calls[u] = 0

(***************************************************************************)
(* Further claims about the hub's relay, checked under SpecHub.            *)
(***************************************************************************)
\* C39: a NEW_SCAN message of a client is relayed, with its data, to every socket
\* of the registry that is open, the sender included; a registered socket that is not
\* open receives nothing and stays registered; a message that does not parse or has
\* an unknown type reaches no socket.
C39_NewScanRelayedToOpenSockets ==
    [][\A ws \in Sockets, frame \in ClientFrames, data \in ClientData :
          WsMessage(ws, frame, data) =>
              /\ conns' = conns
              /\ ready' = ready
              /\ frame = "NEW_SCAN" =>
                    \A w \in Sockets :
                        inbox'[w] = IF w \in conns /\ ready[w] = "OPEN"
                                    THEN Append(inbox[w],
                                                [type |-> "NEW_SCAN", data |-> data, id |-> "uuid"])
                                    ELSE inbox[w]
              /\ frame \notin {"NEW_SCAN", "GENERATE_UUID"} => inbox' = inbox]_vars

\* C39 witness: the sender of a NEW_SCAN message received it back while the other
\* socket, registered and in its closing handshake, has only its welcome.
C39_Witness ==
    \E ws, w \in Sockets :
        /\ ready[ws] = "OPEN" /\ ready[w] = "CLOSE_RECEIVED"
        /\ {ws, w} \subseteq conns
        /\ Len(inbox[ws]) = 2
        /\ inbox[ws][2].type = "NEW_SCAN" /\ inbox[ws][2].data = <<"8">>
        /\ Len(inbox[w]) = 1

\* C40: whatever the sequence of initialize and close calls, at most one WebSocket
\* server exists and at most one heartbeat timer runs: initialize while the server
\* exists creates neither, initialize after close creates exactly one of each.
C40_OneServerOneHeartbeatTimer ==
    /\ [](hub.servers =< 1 /\ hub.timers =< 1)
    /\ [](hub.servers = (IF hub.wss THEN 1 ELSE 0) /\ hub.timers = hub.servers)
    /\ [][HubInitialize =>
             IF hub.wss
             THEN /\ hub'.servers = hub.servers /\ hub'.timers = hub.timers
                  /\ hub'.created = hub.created /\ hub'.wss
             ELSE /\ hub'.servers = 1 /\ hub'.timers = 1
                  /\ hub'.created = hub.created + 1 /\ hub'.wss]_vars

\* C40 witness: after the call at module load, initialize was called once while the
\* server existed and once after a close; the second server is up with one timer, and
\* a socket of the first server is still closing.
C40_Witness ==
    /\ hub.calls = 3
    /\ hub.created = 2
    /\ hub.wss /\ hub.servers = 1 /\ hub.timers = 1
    /\ \E ws \in Sockets : ready[ws] = "CLOSING"

====
